---- MODULE Spec2Model ----
(***************************************************************************)
(* Fridge to Fork: the App component (scan -> analyse -> merge -> recipes  *)
(* -> navigate), the ImageUploader, FridgeInventory and RecipeDisplay      *)
(* components, and the ChatInterface live voice session.                   *)
(*                                                                         *)
(* Strings that the code converts (trim, toLowerCase, includes) are        *)
(* sequences of one-character strings, so that the conversions are         *)
(* computed; strings that are only stored and compared are TLA+ strings.   *)
(***************************************************************************)
EXTENDS Integers, Sequences, FiniteSets, TLC

VARIABLES
  \* ---- App (src/unnamed/part_001, second App) ----
  activeTab,                \* useState<TabName>('scan')
  fridgeInventory,          \* useState<Ingredient[]>([])
  shoppingList,             \* useState<ShoppingListItem[]>([])
  healthLog,                \* useState<string[]>([])
  generatedRecipes,         \* useState<Recipe[]>([])
  selectedRecipe,           \* useState<Recipe | null>(null)
  imageAnalysisLoading,     \* useState<boolean>(false)
  recipeGenerationLoading,  \* useState<boolean>(false)
  imageAnalysisError,       \* useState<string | null>(null)
  recipeGenerationError,    \* useState<string | null>(null)
  uploadedImageFile,        \* useState<File | null>(null)
  isChatOverlayOpen,        \* useState<boolean>(false)
  scans,                    \* the invocations of initiateFullScanProcess: where each stands (pc),
                            \* its const ingredients and const recipes, and whether the ImageUploader that awaits it is mounted
  \* ---- ImageUploader ----
  isLoadingInternal,        \* React.useState<boolean>(false) of the mounted instance
  \* ---- FridgeInventory ----
  editIngredientIndex,      \* useState<number | null>(null)
  chosenAt,                 \* history: where the ingredient chosen with Edit now stands (0: none, or removed)
  alertMessage,             \* the window.alert text raised by the handler that ran last, Null when it raised none
  blankSubmit,              \* history: the submit handler that ran last, if its input was blank ("none" otherwise)
  nextItemId,               \* the uuidv4() values handed out so far (ids are 1, 2, ...)
  \* ---- RecipeDisplay ----
  activeFilters             \* useState<string[]>([])

appVars == <<activeTab, fridgeInventory, shoppingList, healthLog, generatedRecipes,
             selectedRecipe, imageAnalysisLoading, recipeGenerationLoading,
             imageAnalysisError, recipeGenerationError, uploadedImageFile,
             isChatOverlayOpen, scans, isLoadingInternal, editIngredientIndex, chosenAt,
             alertMessage, blankSubmit, nextItemId, activeFilters>>

VARIABLES
  \* ---- ChatInterface (src/components/ChatInterface.tsx): state ----
  isLiveSessionActiveInternal,   \* useState<boolean>(false)
  isThinkingInternal,            \* useState<boolean>(false)
  error,                         \* useState<string | null>(null)
  isSpeaking,                    \* useState<boolean>(false)
  micStream,                     \* useState<MediaStream | null>(null); 0 is null, n the stream of attempt n
  messages,                      \* useState<ChatMessage[]>([])
  liveTranscription,             \* useState<string>('')
  \* ---- ChatInterface: refs ----
  liveSessionRef,                \* 0 is null, n the session promise of attempt n
  inputAudioContextRef,          \* 0 is null, n the context made by attempt n
  outputAudioContextRef,         \* 0 is null, n the context made by attempt n
  scriptProcessorRef,            \* TRUE when a script processor is held
  nextOutputAudioStartTimeRef,   \* useRef<number>(0)
  outputAudioSourcesRef,         \* the set of sources, each named by its chunk
  \* ---- the environment of the chat ----
  attempts,                      \* the invocations of startLiveSession and their sessions
  tracks,                        \* the microphone streams whose tracks are live
  currentTime,                   \* outputAudioContextRef.current.currentTime
  decoding,                      \* handleLiveSessionMessage invocations awaiting decodeAudioData, oldest first
  stoppedEnded,                  \* 'ended' events still to be delivered for sources that were stopped
  sends,                         \* the invocations of handleSendMessage and their response streams
  cleanup,                       \* what the cleanup function of the registered viewMode effect closes over
  \* ---- history of the audio chunks ----
  chunks,                        \* per chunk: arrival, scheduling and what happened in between
  lastArrival,                   \* the clock read by the latest chunk arrival since playback was last stopped
  lastScheduled                  \* the chunk scheduled last since playback was last stopped (0: none)

chatVars == <<isLiveSessionActiveInternal, isThinkingInternal, error, isSpeaking, micStream,
              liveSessionRef, inputAudioContextRef, outputAudioContextRef, scriptProcessorRef,
              nextOutputAudioStartTimeRef, outputAudioSourcesRef, attempts, tracks,
              currentTime, decoding, stoppedEnded, chunks, lastArrival, lastScheduled,
              messages, liveTranscription, sends, cleanup>>

vars == <<appVars, chatVars>>

Null == "null"

(***************************************************************************)
(* Bounds of the model.                                                    *)
(***************************************************************************)
MaxScans == 2

\* ingredients entered with the form of the inventory tab
MaxManual == 2

MaxInventory == 3

MaxShopping == 2

\* invocations of startLiveSession
MaxAttempts == 2

\* audio chunks received
MaxChunks == 3

\* the audio clock stops here
MaxClock == 3
\* the invocations of handleSendMessage
MaxSends == 2
\* the chunks of a response stream, and the pieces of a text
MaxStream == 2
\* the chat messages kept
MaxMessages == 4

(***************************************************************************)
(* JavaScript string operations on sequences of characters.                *)
(***************************************************************************)
UpperChars == <<"A", "B", "C", "E", "G", "I", "K", "L", "M", "N", "O", "R", "T", "V", "W">>
LowerChars == <<"a", "b", "c", "e", "g", "i", "k", "l", "m", "n", "o", "r", "t", "v", "w">>

toLowerCaseChar(c) ==
  IF \E i \in DOMAIN UpperChars : UpperChars[i] = c
    THEN LowerChars[CHOOSE i \in DOMAIN UpperChars : UpperChars[i] = c]
    ELSE c

toLowerCase(s) == [i \in 1..Len(s) |-> toLowerCaseChar(s[i])]

WhiteSpace == {" ", "\t"}

RECURSIVE trimStart(_)
trimStart(s) ==
  IF s # <<>> /\ Head(s) \in WhiteSpace THEN trimStart(Tail(s)) ELSE s

RECURSIVE trimEnd(_)
trimEnd(s) ==
  IF s # <<>> /\ s[Len(s)] \in WhiteSpace THEN trimEnd(SubSeq(s, 1, Len(s) - 1)) ELSE s

trim(s) == trimEnd(trimStart(s))

\* String.prototype.includes: the first position from i on at which pat occurs
RECURSIVE includesFrom(_, _, _)
includesFrom(s, pat, i) ==
  IF i + Len(pat) - 1 > Len(s) THEN FALSE
  ELSE IF SubSeq(s, i, i + Len(pat) - 1) = pat THEN TRUE
  ELSE includesFrom(s, pat, i + 1)

includes(s, pat) == includesFrom(s, pat, 1)

(***************************************************************************)
(* Data: the values the components and the service exchange.               *)
(***************************************************************************)
sMilk == <<"m", "i", "l", "k">>
sMilkCap == <<"M", "i", "l", "k">>
sEgg == <<"e", "g", "g">>
sOne == <<"1">>
sTwo == <<"2">>

\* types.ts Ingredient
Ingredient(n, q, f) == [name |-> n, quantity |-> q, freshness |-> f]

RECURSIVE SeqsUpTo(_, _)
SeqsUpTo(S, n) ==
  IF n = 0 THEN {<<>>}
  ELSE LET shorter == SeqsUpTo(S, n - 1)
       IN  shorter \cup {Append(q, x) : q \in shorter, x \in S}

\* the lists analyzeImage resolves with: none (the fallback answer), a new name with a
\* name in another spelling, and the same name twice in one list
ScanResults ==
  { <<>>,
    <<Ingredient(sEgg, sOne, "fresh"), Ingredient(sMilkCap, sTwo, "fresh")>>,
    <<Ingredient(sMilkCap, sTwo, "fresh"), Ingredient(sMilk, sOne, "good")>> }

sVegetarian == <<"v", "e", "g", "e", "t", "a", "r", "i", "a", "n">>
sLowCarb == <<"l", "o", "w", " ", "c", "a", "r", "b">>

\* types.ts Recipe (the fields the components read)
Recipe(n, s, h) == [name |-> n, summary |-> s, healthInsight |-> h]

RecipePool ==
  { Recipe("Stew", <<"A", " ", "V", "E", "G", "E", "T", "A", "R", "I", "A", "N", " ", "b", "o", "w", "l">>,
           <<"l", "o", "w", "-", "c", "a", "r", "b">>),
    Recipe("Roast", <<"b", "e", "e", "f">>, <<"L", "o", "w", " ", "C", "a", "r", "b", "!">>),
    Recipe("Cake", <<"v", "e", "g", "e", "t", "a", "b", "l", "e">>, <<"r", "i", "c", "h">>) }

Tabs == {"scan", "inventory", "recipes", "voicechat", "imageGen", "health"}

Files == {"photo.jpg"}

ScanIds == 1..MaxScans

AttemptIds == 1..MaxAttempts

\* An invocation of startLiveSession and the session it connects: its position, the
\* micStream that the stopLiveSession of its closure sees, whether close() was asked of
\* its session, and whether onError has fired.
IdleAttempt == [pc |-> "idle", capturedMic |-> 0, closeRequested |-> FALSE, errored |-> FALSE]

ChunkIds == 1..MaxChunks

\* the chunks played, failed or scheduled before playback was last stopped are of no
\* further interest
StoppedChunk == [state |-> "stopped", at |-> 0, seen |-> 0, after |-> 0, start |-> 0,
                 duration |-> 0, stale |-> FALSE]

\* audioBuffer.duration of the chunks
Durations == {2}

\* A chunk: where it stands, the clock read when it arrived (at), the clock read by the
\* latest arrival before it was scheduled (seen), the chunk scheduled before it (after),
\* its start time and duration, and whether playback was stopped between its arrival
\* and its scheduling (stale).
NoChunk == [state |-> "none", at |-> 0, seen |-> 0, after |-> 0, start |-> 0, duration |-> 0,
            stale |-> FALSE]

\* A scan process: its position, whether the ImageUploader that awaits it is still
\* mounted, the locals 'ingredients' and 'recipes' of initiateFullScanProcess, and (as
\* history) the inventory and the health log that its merge produced.
IdleScan ==
  [pc |-> "idle", ownerMounted |-> FALSE, ingredients |-> <<>>, recipes |-> <<>>,
   mergedInventory |-> <<>>, mergedLog |-> <<>>]

\* A chat message; an isStreaming that is left out is false.  A text is the sequence of
\* the pieces it was put together from.
ChatMessage(sender, text, isStreaming) ==
  [sender |-> sender, text |-> text, isStreaming |-> isStreaming]

\* the greeting that the first effect of ChatInterface puts into the messages
Greeting == ChatMessage("gemini", <<"Hello! How can Chef Fridge help you today?">>, FALSE)

SendIds == 1..MaxSends

\* An invocation of handleSendMessage: its position, its messageText, its local
\* fullResponseText, and (as history) the chunks its stream has delivered and the
\* number of messages there were when it was called.
IdleSend ==
  [pc |-> "idle", messageText |-> <<>>, fullResponseText |-> <<>>, delivered |-> <<>>,
   before |-> 0]

(***************************************************************************)
(* Which components are mounted (App's render, part_001 451-516).          *)
(***************************************************************************)
\* chatViewMode of App
chatViewMode ==
  IF activeTab = "voicechat" THEN "tab" ELSE IF isChatOverlayOpen THEN "overlay" ELSE "hidden"

\* what the cleanup function of the viewMode effect closes over in the current render:
\* viewMode, isLiveSessionActiveInternal, and stopLiveSession, which is made anew when
\* micStream changes
Registered ==
  [viewMode |-> chatViewMode, active |-> isLiveSessionActiveInternal, mic |-> micStream]

ImageUploaderMounted(tab) == tab = "scan"

FridgeInventoryMounted(tab) == tab = "inventory"

RecipeDisplayMounted(tab, loading, err) == tab = "recipes" /\ ~loading /\ err = Null

(***************************************************************************)
(* The state after construction.                                           *)
(***************************************************************************)
InitApp ==
  /\ activeTab \in {"scan", "voicechat"}
  /\ fridgeInventory = <<>>
  /\ shoppingList = <<>>
  /\ healthLog = <<>>
  /\ generatedRecipes = <<>>
  /\ selectedRecipe = <<>>
  /\ imageAnalysisLoading = FALSE
  /\ recipeGenerationLoading = FALSE
  /\ imageAnalysisError = Null
  /\ recipeGenerationError = Null
  /\ uploadedImageFile = Null
  /\ isChatOverlayOpen = FALSE
  /\ scans = [s \in ScanIds |-> IdleScan]
  /\ isLoadingInternal = FALSE
  /\ editIngredientIndex = 0
  /\ chosenAt = 0
  /\ alertMessage = Null
  /\ blankSubmit = "none"
  /\ nextItemId = 1
  /\ activeFilters = <<>>

InitChat ==
  /\ isLiveSessionActiveInternal = FALSE
  /\ isThinkingInternal = FALSE
  /\ error = Null
  /\ isSpeaking = FALSE
  /\ micStream = 0
  /\ liveSessionRef = 0
  /\ inputAudioContextRef = 0
  /\ outputAudioContextRef = 0
  /\ scriptProcessorRef = FALSE
  /\ nextOutputAudioStartTimeRef = 0
  /\ outputAudioSourcesRef = {}
  /\ attempts = [a \in AttemptIds |-> IdleAttempt]
  /\ tracks = {}
  /\ currentTime = 0
  /\ decoding = <<>>
  /\ stoppedEnded = 0
  /\ chunks = [c \in ChunkIds |-> NoChunk]
  /\ lastArrival = 0
  /\ lastScheduled = 0
  /\ messages = <<Greeting>>
  /\ liveTranscription = <<>>
  /\ sends = [r \in SendIds |-> IdleSend]
  /\ cleanup = Registered

(***************************************************************************)
(* Component-local state lives as long as the component stays mounted: a   *)
(* component that is unmounted, or mounted anew, has its initial state.    *)
(***************************************************************************)
KeepIfMounted(before, after, value, initial) == IF before /\ after THEN value ELSE initial

\* the ImageUploader instance that started a scan is gone once the scan tab is left
Orphan(sc, stillMounted) ==
  [s \in ScanIds |-> [sc[s] EXCEPT !.ownerMounted = @ /\ stillMounted]]

\* the local state of the three tab components after a render with the new App state
RenderLocals(tab, loading, err, uploaderLoading, editIndex, filters) ==
  /\ isLoadingInternal' =
       KeepIfMounted(ImageUploaderMounted(activeTab), ImageUploaderMounted(tab),
                     uploaderLoading, FALSE)
  /\ editIngredientIndex' =
       KeepIfMounted(FridgeInventoryMounted(activeTab), FridgeInventoryMounted(tab),
                     editIndex, 0)
  /\ chosenAt' =
       KeepIfMounted(FridgeInventoryMounted(activeTab), FridgeInventoryMounted(tab),
                     chosenAt, 0)
  /\ activeFilters' =
       KeepIfMounted(RecipeDisplayMounted(activeTab, recipeGenerationLoading, recipeGenerationError),
                     RecipeDisplayMounted(tab, loading, err), filters, <<>>)

(***************************************************************************)
(* BottomNavigationBar: the click on a navigation item other than          *)
(* 'voicechat', from a tab other than 'voicechat': setActiveTab(item.tab), *)
(* and neither branch that starts or stops the live session is taken.      *)
(***************************************************************************)
setActiveTab(tab) ==
  /\ tab # "voicechat"
  /\ activeTab # "voicechat"
  /\ activeTab' = tab
  /\ RenderLocals(tab, recipeGenerationLoading, recipeGenerationError,
                  isLoadingInternal, editIngredientIndex, activeFilters)
  /\ scans' = Orphan(scans, ImageUploaderMounted(activeTab) /\ ImageUploaderMounted(tab))
  /\ alertMessage' = Null /\ blankSubmit' = "none" /\ UNCHANGED <<chatVars, isChatOverlayOpen>>
  /\ UNCHANGED <<fridgeInventory, shoppingList, healthLog, generatedRecipes, selectedRecipe,
                 imageAnalysisLoading, recipeGenerationLoading, imageAnalysisError,
                 recipeGenerationError, uploadedImageFile, nextItemId>>

(***************************************************************************)
(* ImageUploader                                                           *)
(***************************************************************************)
\* handleRemoveImage of App, reached from the remove button and from an emptied file input
handleRemoveImage ==
  /\ ImageUploaderMounted(activeTab)
  /\ uploadedImageFile # Null
  /\ uploadedImageFile' = Null
  /\ generatedRecipes' = <<>>
  /\ selectedRecipe' = <<>>
  /\ imageAnalysisError' = Null
  /\ recipeGenerationError' = Null
  /\ alertMessage' = Null /\ blankSubmit' = "none" /\ UNCHANGED <<chatVars, isChatOverlayOpen>>
  /\ UNCHANGED <<activeTab, fridgeInventory, shoppingList, healthLog, imageAnalysisLoading,
                 recipeGenerationLoading, scans, isLoadingInternal, editIngredientIndex, chosenAt, nextItemId, activeFilters>>

\* handleFileChange with a chosen file (the input is rendered while no image is shown)
handleFileChange(file) ==
  /\ ImageUploaderMounted(activeTab)
  /\ uploadedImageFile = Null
  /\ uploadedImageFile' = file
  /\ imageAnalysisError' = Null
  /\ alertMessage' = Null /\ blankSubmit' = "none" /\ UNCHANGED <<chatVars, isChatOverlayOpen>>
  /\ UNCHANGED <<activeTab, fridgeInventory, shoppingList, healthLog, generatedRecipes,
                 selectedRecipe, imageAnalysisLoading, recipeGenerationLoading,
                 recipeGenerationError, scans, isLoadingInternal, editIngredientIndex, chosenAt, nextItemId, activeFilters>>

FreeScan == CHOOSE s \in ScanIds : scans[s].pc = "idle" /\ \A t \in ScanIds : scans[t].pc = "idle" => s <= t

\* handleScanButtonClick up to its await, with the synchronous start of
\* initiateFullScanProcess (up to its first await) that it calls.
\* The button is disabled while there is no file or isLoadingInternal is set.
handleScanButtonClick ==
  /\ ImageUploaderMounted(activeTab)
  /\ ~isLoadingInternal
  /\ uploadedImageFile # Null
  /\ \E s \in ScanIds : scans[s].pc = "idle"
  /\ isLoadingInternal' = TRUE
  /\ imageAnalysisLoading' = TRUE
  /\ recipeGenerationLoading' = TRUE
  /\ imageAnalysisError' = Null
  /\ recipeGenerationError' = Null
  /\ scans' = [scans EXCEPT ![FreeScan] = [IdleScan EXCEPT !.pc = "analyzing", !.ownerMounted = TRUE]]
  /\ alertMessage' = Null /\ blankSubmit' = "none" /\ UNCHANGED <<chatVars, isChatOverlayOpen>>
  /\ UNCHANGED <<activeTab, fridgeInventory, shoppingList, healthLog, generatedRecipes,
                 selectedRecipe, uploadedImageFile, editIngredientIndex, chosenAt,
                 nextItemId, activeFilters>>

(***************************************************************************)
(* App.initiateFullScanProcess after its awaits.                           *)
(***************************************************************************)
\* a search that reports the last entry of the name instead of the first
findLastIndexByName(inv, name) ==
  IF \E i \in 1..Len(inv) : toLowerCase(inv[i].name) = toLowerCase(name)
    THEN CHOOSE i \in 1..Len(inv) :
           /\ toLowerCase(inv[i].name) = toLowerCase(name)
           /\ \A j \in (i + 1)..Len(inv) : toLowerCase(inv[j].name) # toLowerCase(name)
    ELSE 0

\* Array.prototype.findIndex with the case-insensitive name test; 0 stands for -1
findIndexByName(inv, name) ==
  IF \E i \in 1..Len(inv) : toLowerCase(inv[i].name) = toLowerCase(name)
    THEN CHOOSE i \in 1..Len(inv) :
           /\ toLowerCase(inv[i].name) = toLowerCase(name)
           /\ \A j \in 1..(i - 1) : toLowerCase(inv[j].name) # toLowerCase(name)
    ELSE 0

\* a merge that looks the name up as it is spelled
mergeOneCaseSensitive(newInventory, newIng) ==
  IF \E i \in 1..Len(newInventory) : newInventory[i].name = newIng.name
    THEN LET existingIndex == CHOOSE i \in 1..Len(newInventory) :
                                /\ newInventory[i].name = newIng.name
                                /\ \A j \in 1..(i - 1) : newInventory[j].name # newIng.name
         IN  [newInventory EXCEPT ![existingIndex].quantity = newIng.quantity,
                                  ![existingIndex].freshness = newIng.freshness]
    ELSE Append(newInventory, newIng)

\* the body of ingredients.forEach in the setFridgeInventory updater
mergeOne(newInventory, newIng) ==
  LET existingIndex == findIndexByName(newInventory, newIng.name)
  IN  IF existingIndex > 0
        THEN [newInventory EXCEPT ![existingIndex].quantity = newIng.quantity,
                                  ![existingIndex].freshness = newIng.freshness]
        ELSE Append(newInventory, newIng)

\* the setFridgeInventory updater: prev => merged inventory
RECURSIVE mergeIngredients(_, _)
mergeIngredients(prev, ingredients) ==
  IF ingredients = <<>> THEN prev
  ELSE mergeIngredients(mergeOne(prev, Head(ingredients)), Tail(ingredients))

\* `Analyzed new ingredients. Raw analysis: Identified ${n} items.`
AnalyzedEntry(n) == [kind |-> "analyzed", name |-> <<>>, n |-> n]

\* `Proactive alert: ${name} is expiring soon!`
AlertEntry(name) == [kind |-> "alert", name |-> name, n |-> 0]

\* analyzeImage resolved: merge, log, and the call of generateRecipes
analyzeImageResolved(s, ingredients) ==
  /\ scans[s].pc = "analyzing"
  /\ Len(mergeIngredients(fridgeInventory, ingredients)) <= MaxInventory
  /\ fridgeInventory' = mergeIngredients(fridgeInventory, ingredients)
  /\ healthLog' = Append(healthLog, AnalyzedEntry(Len(ingredients)))
  /\ scans' = [scans EXCEPT ![s].pc = "generating", ![s].ingredients = ingredients,
                           ![s].mergedInventory = fridgeInventory',
                           ![s].mergedLog = healthLog']
  /\ alertMessage' = Null /\ blankSubmit' = "none" /\ UNCHANGED <<chatVars, isChatOverlayOpen>>
  /\ UNCHANGED <<activeTab, shoppingList, generatedRecipes, selectedRecipe,
                 imageAnalysisLoading, recipeGenerationLoading, imageAnalysisError,
                 recipeGenerationError, uploadedImageFile, isLoadingInternal,
                 editIngredientIndex, chosenAt, nextItemId, activeFilters>>

ScanFailedMessage == "Failed to process image and generate recipes"

\* a catch block that leaves the recipes of an earlier scan on display
scanCatchFinallyKeepingRecipes(s, endPc) ==
  /\ imageAnalysisError' = ScanFailedMessage
  /\ imageAnalysisLoading' = FALSE
  /\ recipeGenerationLoading' = FALSE
  /\ RenderLocals(activeTab, FALSE, recipeGenerationError,
                  IF scans[s].ownerMounted THEN FALSE ELSE isLoadingInternal,
                  editIngredientIndex, activeFilters)
  /\ scans' = [scans EXCEPT ![s].pc = endPc, ![s].mergedInventory = <<>>, ![s].mergedLog = <<>>]
  /\ alertMessage' = Null /\ blankSubmit' = "none" /\ UNCHANGED <<chatVars, isChatOverlayOpen>>
  /\ UNCHANGED <<activeTab, fridgeInventory, shoppingList, healthLog, selectedRecipe,
                 generatedRecipes, recipeGenerationError, uploadedImageFile, nextItemId>>

\* a failure of generateRecipes that takes the scan's health-log entry back
generateRecipesRejectedRollingBack(s) ==
  /\ scans[s].pc = "generating"
  /\ imageAnalysisError' = ScanFailedMessage
  /\ generatedRecipes' = <<>>
  /\ imageAnalysisLoading' = FALSE
  /\ recipeGenerationLoading' = FALSE
  /\ healthLog' = SelectSeq(healthLog, LAMBDA e : e # AnalyzedEntry(Len(scans[s].ingredients)))
  /\ RenderLocals(activeTab, FALSE, recipeGenerationError,
                  IF scans[s].ownerMounted THEN FALSE ELSE isLoadingInternal,
                  editIngredientIndex, activeFilters)
  /\ scans' = [scans EXCEPT ![s].pc = "recipesFailed", ![s].mergedInventory = <<>>,
                            ![s].mergedLog = <<>>]
  /\ alertMessage' = Null /\ blankSubmit' = "none" /\ UNCHANGED <<chatVars, isChatOverlayOpen>>
  /\ UNCHANGED <<activeTab, fridgeInventory, shoppingList, selectedRecipe,
                 recipeGenerationError, uploadedImageFile, nextItemId>>

\* a completion that keeps the recipe that was selected before the scan
generateRecipesResolvedKeepingSelection(s, recipes) ==
  /\ scans[s].pc = "generating"
  /\ generatedRecipes' = recipes
  /\ activeTab' = "recipes"
  /\ imageAnalysisLoading' = FALSE
  /\ recipeGenerationLoading' = FALSE
  /\ RenderLocals("recipes", FALSE, recipeGenerationError,
                  IF scans[s].ownerMounted THEN FALSE ELSE isLoadingInternal,
                  editIngredientIndex, activeFilters)
  /\ scans' = [Orphan(scans, FALSE) EXCEPT ![s].pc = "done", ![s].ingredients = <<>>,
                                           ![s].recipes = recipes,
                                           ![s].mergedInventory = <<>>,
                                           ![s].mergedLog = <<>>]
  /\ alertMessage' = Null /\ blankSubmit' = "none" /\ UNCHANGED <<chatVars, isChatOverlayOpen>>
  /\ UNCHANGED <<fridgeInventory, shoppingList, healthLog, imageAnalysisError, selectedRecipe,
                 recipeGenerationError, uploadedImageFile, nextItemId>>

\* the catch and finally blocks, then the finally block of handleScanButtonClick
\* that awaited the process
scanCatchFinally(s, endPc) ==
  /\ imageAnalysisError' = ScanFailedMessage
  /\ generatedRecipes' = <<>>
  /\ imageAnalysisLoading' = FALSE
  /\ recipeGenerationLoading' = FALSE
  /\ RenderLocals(activeTab, FALSE, recipeGenerationError,
                  IF scans[s].ownerMounted THEN FALSE ELSE isLoadingInternal,
                  editIngredientIndex, activeFilters)
  /\ scans' = [scans EXCEPT ![s].pc = endPc, ![s].mergedInventory = <<>>, ![s].mergedLog = <<>>]
  /\ alertMessage' = Null /\ blankSubmit' = "none" /\ UNCHANGED <<chatVars, isChatOverlayOpen>>
  /\ UNCHANGED <<activeTab, fridgeInventory, shoppingList, healthLog, selectedRecipe,
                 recipeGenerationError, uploadedImageFile, nextItemId>>

analyzeImageRejected(s) ==
  /\ scans[s].pc = "analyzing"
  /\ scanCatchFinally(s, "analysisFailed")

generateRecipesRejected(s) ==
  /\ scans[s].pc = "generating"
  /\ scanCatchFinally(s, "recipesFailed")

\* generateRecipes resolved: recipes, navigation, finally, and the finally block of
\* handleScanButtonClick
generateRecipesResolved(s, recipes) ==
  /\ scans[s].pc = "generating"
  /\ generatedRecipes' = recipes
  /\ selectedRecipe' = <<>>
  /\ activeTab' = "recipes"
  /\ imageAnalysisLoading' = FALSE
  /\ recipeGenerationLoading' = FALSE
  /\ RenderLocals("recipes", FALSE, recipeGenerationError,
                  IF scans[s].ownerMounted THEN FALSE ELSE isLoadingInternal,
                  editIngredientIndex, activeFilters)
  /\ scans' = [Orphan(scans, FALSE) EXCEPT ![s].pc = "done", ![s].ingredients = <<>>,
                                           ![s].recipes = recipes,
                                           ![s].mergedInventory = <<>>,
                                           ![s].mergedLog = <<>>]
  /\ alertMessage' = Null /\ blankSubmit' = "none" /\ UNCHANGED <<chatVars, isChatOverlayOpen>>
  /\ UNCHANGED <<fridgeInventory, shoppingList, healthLog, imageAnalysisError,
                 recipeGenerationError, uploadedImageFile, nextItemId>>

(***************************************************************************)
(* App.handleUpdateInventory and the milk-expiry effect.                   *)
(***************************************************************************)
IsGoodMilk(item) == includes(toLowerCase(item.name), sMilk) /\ item.freshness = "good"

\* newInventory.find(item => name includes 'milk' && freshness === 'good'), as a set of 0 or 1
findGoodMilk(inv) ==
  IF \E i \in 1..Len(inv) : IsGoodMilk(inv[i])
    THEN {inv[CHOOSE i \in 1..Len(inv) :
                IsGoodMilk(inv[i]) /\ \A j \in 1..(i - 1) : ~IsGoodMilk(inv[j])]}
    ELSE {}

InLog(log, entry) == \E i \in 1..Len(log) : log[i] = entry

handleUpdateInventory(newInventory) ==
  /\ fridgeInventory' = newInventory
  /\ healthLog' =
       LET found == findGoodMilk(newInventory)
       IN  IF found # {} /\ ~InLog(healthLog, AlertEntry((CHOOSE m \in found : TRUE).name))
             THEN Append(healthLog, AlertEntry((CHOOSE m \in found : TRUE).name))
             ELSE healthLog

\* checkExpiry of the effect on [fridgeInventory] and of its interval timer
expireMilk(inv) ==
  [i \in 1..Len(inv) |-> IF IsGoodMilk(inv[i]) THEN [inv[i] EXCEPT !.freshness = "expiring"]
                                               ELSE inv[i]]

checkExpiry ==
  /\ expireMilk(fridgeInventory) # fridgeInventory
  /\ fridgeInventory' = expireMilk(fridgeInventory)
  /\ alertMessage' = Null /\ blankSubmit' = "none" /\ UNCHANGED <<chatVars, isChatOverlayOpen>>
  /\ UNCHANGED <<activeTab, shoppingList, healthLog, generatedRecipes, selectedRecipe,
                 imageAnalysisLoading, recipeGenerationLoading, imageAnalysisError,
                 recipeGenerationError, uploadedImageFile, scans, isLoadingInternal,
                 editIngredientIndex, chosenAt, nextItemId, activeFilters>>

(***************************************************************************)
(* FridgeInventory: the ingredient form.  The form fields are the inputs   *)
(* of the submit handler; index 0 stands for editIngredientIndex null.     *)
(***************************************************************************)
EmptyFieldsAlert == "Ingredient name and quantity cannot be empty."

IsBlank(text) == trim(text) = <<>>

\* inventory.map((item, index) => index === editIngredientIndex ? newIngredient : item)
replaceAt(inv, index, newIngredient) ==
  [i \in 1..Len(inv) |-> IF i = index THEN newIngredient ELSE inv[i]]

handleAddOrUpdateIngredient(name, quantity, freshness) ==
  /\ FridgeInventoryMounted(activeTab)
  /\ IF IsBlank(name) \/ IsBlank(quantity)
       THEN /\ alertMessage' = EmptyFieldsAlert
            /\ blankSubmit' = "handleAddOrUpdateIngredient" /\ UNCHANGED <<chatVars, isChatOverlayOpen>>
            /\ UNCHANGED <<fridgeInventory, healthLog, editIngredientIndex, chosenAt>>
       ELSE LET newIngredient == Ingredient(trim(name), trim(quantity), freshness)
                updatedInventory ==
                  IF editIngredientIndex # 0
                    THEN replaceAt(fridgeInventory, editIngredientIndex, newIngredient)
                    ELSE Append(fridgeInventory, newIngredient)
            IN  /\ Len(updatedInventory) <= MaxManual
                /\ handleUpdateInventory(updatedInventory)
                /\ editIngredientIndex' = 0
                /\ chosenAt' = 0
                /\ alertMessage' = Null /\ blankSubmit' = "none" /\ UNCHANGED <<chatVars, isChatOverlayOpen>>
  /\ UNCHANGED <<activeTab, shoppingList, generatedRecipes, selectedRecipe,
                 imageAnalysisLoading, recipeGenerationLoading, imageAnalysisError,
                 recipeGenerationError, uploadedImageFile, scans, isLoadingInternal,
                 nextItemId, activeFilters>>

handleEditIngredient(index) ==
  /\ FridgeInventoryMounted(activeTab)
  /\ index \in 1..Len(fridgeInventory)
  /\ editIngredientIndex' = index
  /\ chosenAt' = index
  /\ alertMessage' = Null /\ blankSubmit' = "none" /\ UNCHANGED <<chatVars, isChatOverlayOpen>>
  /\ UNCHANGED <<activeTab, fridgeInventory, shoppingList, healthLog, generatedRecipes,
                 selectedRecipe, imageAnalysisLoading, recipeGenerationLoading,
                 imageAnalysisError, recipeGenerationError, uploadedImageFile, scans,
                 isLoadingInternal, nextItemId, activeFilters>>

\* the Cancel Edit button
cancelEdit ==
  /\ FridgeInventoryMounted(activeTab)
  /\ editIngredientIndex # 0
  /\ editIngredientIndex' = 0
  /\ chosenAt' = 0
  /\ alertMessage' = Null /\ blankSubmit' = "none" /\ UNCHANGED <<chatVars, isChatOverlayOpen>>
  /\ UNCHANGED <<activeTab, fridgeInventory, shoppingList, healthLog, generatedRecipes,
                 selectedRecipe, imageAnalysisLoading, recipeGenerationLoading,
                 imageAnalysisError, recipeGenerationError, uploadedImageFile, scans,
                 isLoadingInternal, nextItemId, activeFilters>>

\* inventory.filter((_, index) => index !== indexToRemove)
removeAt(seq, index) ==
  [i \in 1..(Len(seq) - 1) |-> IF i < index THEN seq[i] ELSE seq[i + 1]]

handleRemoveIngredient(indexToRemove) ==
  /\ FridgeInventoryMounted(activeTab)
  /\ indexToRemove \in 1..Len(fridgeInventory)
  /\ handleUpdateInventory(removeAt(fridgeInventory, indexToRemove))
  /\ chosenAt' = IF chosenAt = indexToRemove THEN 0
                 ELSE IF chosenAt > indexToRemove THEN chosenAt - 1
                 ELSE chosenAt
  /\ alertMessage' = Null /\ blankSubmit' = "none" /\ UNCHANGED <<chatVars, isChatOverlayOpen>>
  /\ UNCHANGED <<activeTab, shoppingList, generatedRecipes, selectedRecipe,
                 imageAnalysisLoading, recipeGenerationLoading, imageAnalysisError,
                 recipeGenerationError, uploadedImageFile, scans, isLoadingInternal,
                 editIngredientIndex, nextItemId, activeFilters>>

(***************************************************************************)
(* FridgeInventory: the shopping list.                                     *)
(***************************************************************************)
ShoppingListItem(id, name, checked) == [id |-> id, name |-> name, checked |-> checked]

shoppingFrame ==
  /\ alertMessage' = Null /\ blankSubmit' = "none" /\ UNCHANGED <<chatVars, isChatOverlayOpen>>
  /\ UNCHANGED <<activeTab, fridgeInventory, healthLog, generatedRecipes, selectedRecipe,
                 imageAnalysisLoading, recipeGenerationLoading, imageAnalysisError,
                 recipeGenerationError, uploadedImageFile, scans, isLoadingInternal,
                 editIngredientIndex, chosenAt, activeFilters>>

handleAddShoppingItem(name) ==
  /\ FridgeInventoryMounted(activeTab)
  /\ IF IsBlank(name)
       THEN /\ blankSubmit' = "handleAddShoppingItem" /\ UNCHANGED <<chatVars, isChatOverlayOpen>>
            /\ UNCHANGED <<shoppingList, nextItemId>>
       ELSE /\ nextItemId <= MaxShopping
            /\ shoppingList' = Append(shoppingList, ShoppingListItem(nextItemId, trim(name), FALSE))
            /\ nextItemId' = nextItemId + 1
            /\ blankSubmit' = "none" /\ UNCHANGED <<chatVars, isChatOverlayOpen>>
  /\ alertMessage' = Null
  /\ UNCHANGED <<activeTab, fridgeInventory, healthLog, generatedRecipes, selectedRecipe,
                 imageAnalysisLoading, recipeGenerationLoading, imageAnalysisError,
                 recipeGenerationError, uploadedImageFile, scans, isLoadingInternal,
                 editIngredientIndex, chosenAt, activeFilters>>

handleUpdateShoppingItem(id, newName) ==
  /\ FridgeInventoryMounted(activeTab)
  /\ \E i \in 1..Len(shoppingList) : shoppingList[i].id = id
  /\ shoppingList' = [i \in 1..Len(shoppingList) |->
                        IF shoppingList[i].id = id THEN [shoppingList[i] EXCEPT !.name = newName]
                                                   ELSE shoppingList[i]]
  /\ UNCHANGED nextItemId
  /\ shoppingFrame

\* a toggle that checks the item whatever it was
checkShoppingItem(list, id) ==
  [i \in 1..Len(list) |->
     IF list[i].id = id THEN [list[i] EXCEPT !.checked = TRUE] ELSE list[i]]

\* shoppingList.map(item => item.id === id ? { ...item, checked: !item.checked } : item)
toggleShoppingItem(list, id) ==
  [i \in 1..Len(list) |->
     IF list[i].id = id THEN [list[i] EXCEPT !.checked = ~@] ELSE list[i]]

handleToggleShoppingItem(id) ==
  /\ FridgeInventoryMounted(activeTab)
  /\ \E i \in 1..Len(shoppingList) : shoppingList[i].id = id
  /\ shoppingList' = toggleShoppingItem(shoppingList, id)
  /\ UNCHANGED nextItemId
  /\ shoppingFrame

handleRemoveShoppingItem(id) ==
  /\ FridgeInventoryMounted(activeTab)
  /\ \E i \in 1..Len(shoppingList) : shoppingList[i].id = id
  /\ LET Keep(item) == item.id # id IN shoppingList' = SelectSeq(shoppingList, Keep)
  /\ UNCHANGED nextItemId
  /\ shoppingFrame

clearCompletedShoppingItems ==
  /\ FridgeInventoryMounted(activeTab)
  /\ \E i \in 1..Len(shoppingList) : shoppingList[i].checked
  /\ LET Keep(item) == ~item.checked IN shoppingList' = SelectSeq(shoppingList, Keep)
  /\ UNCHANGED nextItemId
  /\ shoppingFrame

(***************************************************************************)
(* RecipeDisplay                                                           *)
(***************************************************************************)
allFilters == <<"Quick (<30 Mins)", "Vegetarian", "Low Carb", "High Protein">>

\* a callback that compares without lower-casing the recipe's text
filterAcceptsCaseSensitive(filter, recipe) ==
  IF filter = "Vegetarian" THEN includes(recipe.summary, sVegetarian)
  ELSE IF filter = "Low Carb" THEN includes(recipe.healthInsight, sLowCarb)
  ELSE TRUE

\* the callback of activeFilters.some
filterAccepts(filter, recipe) ==
  IF filter = "Vegetarian" THEN includes(toLowerCase(recipe.summary), sVegetarian)
  ELSE IF filter = "Low Carb" THEN includes(toLowerCase(recipe.healthInsight), sLowCarb)
  ELSE TRUE

\* Array.prototype.some, left to right
RECURSIVE someFilter(_, _)
someFilter(filters, recipe) ==
  IF filters = <<>> THEN FALSE
  ELSE IF filterAccepts(Head(filters), recipe) THEN TRUE
  ELSE someFilter(Tail(filters), recipe)

\* the callback of recipes.filter
recipeListed(filters, recipe) ==
  IF Len(filters) = 0 THEN TRUE ELSE someFilter(filters, recipe)

RECURSIVE filteredRecipesOf(_, _)
filteredRecipesOf(recipes, filters) ==
  IF recipes = <<>> THEN <<>>
  ELSE IF recipeListed(filters, Head(recipes))
         THEN <<Head(recipes)>> \o filteredRecipesOf(Tail(recipes), filters)
         ELSE filteredRecipesOf(Tail(recipes), filters)

\* const filteredRecipes of the current render
filteredRecipes == filteredRecipesOf(generatedRecipes, activeFilters)

recipeFrame ==
  /\ alertMessage' = Null /\ blankSubmit' = "none" /\ UNCHANGED <<chatVars, isChatOverlayOpen>>
  /\ UNCHANGED <<activeTab, fridgeInventory, shoppingList, healthLog, generatedRecipes,
                 imageAnalysisLoading, recipeGenerationLoading, imageAnalysisError,
                 recipeGenerationError, uploadedImageFile, scans, isLoadingInternal,
                 editIngredientIndex, chosenAt, nextItemId>>

\* the filter buttons are rendered in the list view (no recipe selected) while there
\* are recipes
toggleFilter(filter) ==
  /\ RecipeDisplayMounted(activeTab, recipeGenerationLoading, recipeGenerationError)
  /\ selectedRecipe = <<>>
  /\ Len(generatedRecipes) > 0
  /\ activeFilters' =
       IF \E i \in 1..Len(activeFilters) : activeFilters[i] = filter
         THEN LET Other(f) == f # filter IN SelectSeq(activeFilters, Other)
         ELSE Append(activeFilters, filter)
  /\ UNCHANGED selectedRecipe
  /\ recipeFrame

\* a click on a listed recipe card: onRecipeSelected(recipe)
onRecipeSelected(index) ==
  /\ RecipeDisplayMounted(activeTab, recipeGenerationLoading, recipeGenerationError)
  /\ selectedRecipe = <<>>
  /\ index \in 1..Len(filteredRecipes)
  /\ selectedRecipe' = <<filteredRecipes[index]>>
  /\ UNCHANGED activeFilters
  /\ recipeFrame

\* Back to Recipes: onRecipeSelected(null)
onRecipeDeselected ==
  /\ RecipeDisplayMounted(activeTab, recipeGenerationLoading, recipeGenerationError)
  /\ selectedRecipe # <<>>
  /\ selectedRecipe' = <<>>
  /\ UNCHANGED activeFilters
  /\ recipeFrame

(***************************************************************************)
(* ChatInterface: audio playback.  The audio state that the handlers       *)
(* update in sequence is passed along as a record.                         *)
(***************************************************************************)
Max(a, b) == IF a >= b THEN a ELSE b

Audio ==
  [sources |-> outputAudioSourcesRef, next |-> nextOutputAudioStartTimeRef,
   speaking |-> isSpeaking, chunks |-> chunks, lastArrival |-> lastArrival,
   lastScheduled |-> lastScheduled, stoppedEnded |-> stoppedEnded]

SetAudio(A) ==
  /\ outputAudioSourcesRef' = A.sources
  /\ nextOutputAudioStartTimeRef' = A.next
  /\ isSpeaking' = A.speaking
  /\ chunks' = A.chunks
  /\ lastArrival' = A.lastArrival
  /\ lastScheduled' = A.lastScheduled
  /\ stoppedEnded' = A.stoppedEnded

\* a scheduling that starts the chunk at the clock instead of the next start time
scheduleChunkAtClock(A, c) ==
  [A EXCEPT !.sources = @ \cup {c},
            !.next = currentTime + A.chunks[c].duration,
            !.chunks = [@ EXCEPT ![c].state = "scheduled",
                                 ![c].start = currentTime,
                                 ![c].seen = A.lastArrival,
                                 ![c].after = A.lastScheduled],
            !.lastScheduled = c]

\* stopAllAudioPlayback: every source is stopped and deleted, the next start time is 0
stopAllAudioPlayback(A) ==
  [A EXCEPT !.sources = {},
            !.stoppedEnded = @ + Cardinality(A.sources),
            !.next = 0,
            !.speaking = FALSE,
            !.chunks = [c \in ChunkIds |->
                          IF A.chunks[c].state = "decoding"
                            THEN [A.chunks[c] EXCEPT !.stale = TRUE]
                          ELSE IF A.chunks[c].state = "none" THEN NoChunk
                          ELSE StoppedChunk],
            !.lastArrival = 0,
            !.lastScheduled = 0]

\* the source of chunk c is created, started at the next start time and added
scheduleChunk(A, c) ==
  [A EXCEPT !.sources = @ \cup {c},
            !.next = @ + A.chunks[c].duration,
            !.chunks = [@ EXCEPT ![c].state = "scheduled",
                                 ![c].start = A.next,
                                 ![c].seen = A.lastArrival,
                                 ![c].after = A.lastScheduled],
            !.lastScheduled = c]

AudioPlaybackError == "Audio playback error"

\* the catch block of handleLiveSessionMessage
failChunk(A, c) == [A EXCEPT !.speaking = FALSE, !.chunks = [@ EXCEPT ![c].state = "failed"]]

\* the part of handleLiveSessionMessage after the audio: turnComplete, interrupted
afterAudio(A, msg) ==
  LET B == IF msg.turnComplete THEN [A EXCEPT !.speaking = FALSE] ELSE A
  IN  IF msg.interrupted THEN stopAllAudioPlayback(B) ELSE B

\* the server messages: audio is the duration of the chunk carried, 0 for none; the
\* transcriptions are texts, empty for none
Message(audio, interrupted, turnComplete) ==
  [audio |-> audio, interrupted |-> interrupted, turnComplete |-> turnComplete,
   outputTranscription |-> <<>>, inputTranscription |-> <<>>]

\* the updater of the outputTranscription branch: the text goes to the last message if
\* that is a streaming gemini message, and into a new streaming message otherwise
appendTranscription(prev, text) ==
  IF prev # <<>> /\ prev[Len(prev)].sender = "gemini" /\ prev[Len(prev)].isStreaming
    THEN [prev EXCEPT ![Len(prev)].text = @ \o text]
    ELSE Append(prev, ChatMessage("gemini", text, TRUE))

\* prev.map(msg => msg.isStreaming ? { ...msg, isStreaming: false } : msg)
finishStreaming(prev) == [i \in 1..Len(prev) |-> [prev[i] EXCEPT !.isStreaming = FALSE]]

\* the messages after the transcription and turnComplete branches of the handler
afterTranscription(prev, msg) ==
  LET written == IF msg.outputTranscription # <<>>
                   THEN appendTranscription(prev, msg.outputTranscription)
                   ELSE prev
  IN  IF msg.turnComplete THEN finishStreaming(written) ELSE written

\* the messages and the pieces of a text that the model keeps
WithinBounds(msgs) ==
  Len(msgs) <= MaxMessages /\ \A i \in 1..Len(msgs) : Len(msgs[i].text) <= MaxStream

\* liveTranscription after the inputTranscription and turnComplete branches
heardAfter(heard, msg) ==
  IF msg.turnComplete THEN <<>>
  ELSE IF msg.inputTranscription # <<>> THEN msg.inputTranscription
  ELSE heard

Messages ==
  {Message(d, FALSE, FALSE) : d \in Durations}
    \cup {Message(0, TRUE, FALSE), Message(0, FALSE, TRUE), Message(2, TRUE, FALSE)}

FreeChunk == CHOOSE c \in ChunkIds : chunks[c].state = "none" /\ \A d \in 1..(c - 1) : chunks[d].state # "none"

\* onMessage of the session of attempt a
handleLiveSessionMessage(a, msg) ==
  /\ attempts[a].pc = "open"
  /\ IF msg.audio # 0 /\ outputAudioContextRef # 0
       THEN /\ \E c \in ChunkIds : chunks[c].state = "none"
            /\ SetAudio([Audio EXCEPT
                 !.speaking = TRUE,
                 !.next = Max(nextOutputAudioStartTimeRef, currentTime),
                 !.lastArrival = currentTime,
                 !.chunks = [@ EXCEPT ![FreeChunk] =
                               [NoChunk EXCEPT !.state = "decoding", !.at = currentTime,
                                               !.duration = msg.audio]]])
            /\ decoding' = Append(decoding, [chunk |-> FreeChunk, msg |-> msg])
            /\ UNCHANGED <<isThinkingInternal, messages, liveTranscription>>
       ELSE /\ SetAudio(afterAudio(Audio, msg))
            /\ isThinkingInternal' = IF msg.turnComplete THEN FALSE ELSE isThinkingInternal
            /\ msg.outputTranscription # <<>> => WithinBounds(afterTranscription(messages, msg))
            /\ messages' = afterTranscription(messages, msg)
            /\ liveTranscription' = heardAfter(liveTranscription, msg)
            /\ UNCHANGED decoding
  /\ UNCHANGED <<appVars, cleanup, sends, isLiveSessionActiveInternal, error, micStream, liveSessionRef,
                 inputAudioContextRef, outputAudioContextRef, scriptProcessorRef, attempts,
                 tracks, currentTime>>

\* the await of decodeAudioData returns to the oldest waiting invocation; with the
\* output context gone createBufferSource throws and the catch block runs
decodeAudioDataResolved ==
  /\ decoding # <<>>
  /\ LET c == Head(decoding).chunk
         msg == Head(decoding).msg
     IN  /\ IF outputAudioContextRef # 0
              THEN /\ SetAudio(afterAudio(scheduleChunk(Audio, c), msg))
                   /\ UNCHANGED error
              ELSE /\ SetAudio(afterAudio(failChunk(Audio, c), msg))
                   /\ error' = AudioPlaybackError
         /\ isThinkingInternal' = IF msg.turnComplete THEN FALSE ELSE isThinkingInternal
         /\ messages' = afterTranscription(messages, msg)
         /\ liveTranscription' = heardAfter(liveTranscription, msg)
  /\ decoding' = Tail(decoding)
  /\ UNCHANGED <<appVars, cleanup, sends, isLiveSessionActiveInternal, micStream, liveSessionRef,
                 inputAudioContextRef, outputAudioContextRef, scriptProcessorRef, attempts,
                 tracks, currentTime>>

\* decodeAudioData throws (createBuffer rejects the data): the catch block runs
decodeAudioDataRejected ==
  /\ decoding # <<>>
  /\ LET c == Head(decoding).chunk
         msg == Head(decoding).msg
     IN  /\ SetAudio(afterAudio(failChunk(Audio, c), msg))
         /\ isThinkingInternal' = IF msg.turnComplete THEN FALSE ELSE isThinkingInternal
         /\ messages' = afterTranscription(messages, msg)
         /\ liveTranscription' = heardAfter(liveTranscription, msg)
  /\ error' = AudioPlaybackError
  /\ decoding' = Tail(decoding)
  /\ UNCHANGED <<appVars, cleanup, sends, isLiveSessionActiveInternal, micStream, liveSessionRef,
                 inputAudioContextRef, outputAudioContextRef, scriptProcessorRef, attempts,
                 tracks, currentTime>>

\* the 'ended' listener of a source that has played to its end
sourceEnded(c) ==
  /\ c \in outputAudioSourcesRef
  /\ chunks[c].start + chunks[c].duration <= currentTime
  /\ outputAudioSourcesRef' = outputAudioSourcesRef \ {c}
  /\ isSpeaking' = IF outputAudioSourcesRef \ {c} = {} THEN FALSE ELSE isSpeaking
  /\ UNCHANGED <<appVars, cleanup, sends, isLiveSessionActiveInternal, isThinkingInternal, error, micStream,
                 liveSessionRef, inputAudioContextRef, outputAudioContextRef,
                 scriptProcessorRef, nextOutputAudioStartTimeRef, attempts, tracks,
                 currentTime, decoding, stoppedEnded, chunks, lastArrival, lastScheduled,
                 messages, liveTranscription>>

\* the 'ended' listener of a source that was stopped (and is no longer in the set)
stoppedSourceEnded ==
  /\ stoppedEnded > 0
  /\ stoppedEnded' = stoppedEnded - 1
  /\ isSpeaking' = IF outputAudioSourcesRef = {} THEN FALSE ELSE isSpeaking
  /\ UNCHANGED <<appVars, cleanup, sends, isLiveSessionActiveInternal, isThinkingInternal, error, micStream,
                 liveSessionRef, inputAudioContextRef, outputAudioContextRef,
                 scriptProcessorRef, nextOutputAudioStartTimeRef, outputAudioSourcesRef,
                 attempts, tracks, currentTime, decoding, chunks, lastArrival, lastScheduled,
                 messages, liveTranscription>>

\* the audio clock of the output context advances
tick ==
  /\ outputAudioContextRef # 0
  /\ currentTime < MaxClock
  /\ currentTime' = currentTime + 1
  /\ UNCHANGED <<appVars, cleanup, sends, isLiveSessionActiveInternal, isThinkingInternal, error, isSpeaking,
                 micStream, liveSessionRef, inputAudioContextRef, outputAudioContextRef,
                 scriptProcessorRef, nextOutputAudioStartTimeRef, outputAudioSourcesRef,
                 attempts, tracks, decoding, stoppedEnded, chunks, lastArrival, lastScheduled,
                 messages, liveTranscription>>

(***************************************************************************)
(* ChatInterface: the live session.                                        *)
(***************************************************************************)
\* liveSessionRef.current?.then(session => session.close())
requestClose(atts, ref) ==
  IF ref = 0 THEN atts ELSE [atts EXCEPT ![ref].closeRequested = TRUE]

\* a stopLiveSession that forgets the microphone stream without stopping its tracks
stopLiveSessionKeepingTracks(mic, atts) ==
  /\ SetAudio(stopAllAudioPlayback(Audio))
  /\ attempts' = requestClose(atts, liveSessionRef)
  /\ liveSessionRef' = 0
  /\ micStream' = IF mic # 0 THEN 0 ELSE micStream
  /\ inputAudioContextRef' = 0
  /\ outputAudioContextRef' = 0
  /\ currentTime' = 0
  /\ scriptProcessorRef' = FALSE
  /\ isLiveSessionActiveInternal' = FALSE
  /\ isThinkingInternal' = FALSE
  /\ liveTranscription' = <<>>
  /\ error' = Null
  /\ UNCHANGED <<tracks, decoding>>

\* stopLiveSession of a closure whose micStream is mic; atts is attempts as the caller
\* leaves it.  setError(null) is the last setError of every handler that calls it.
stopLiveSession(mic, atts) ==
  /\ SetAudio(stopAllAudioPlayback(Audio))
  /\ attempts' = requestClose(atts, liveSessionRef)
  /\ liveSessionRef' = 0
  /\ IF mic # 0
       THEN /\ tracks' = tracks \ {mic}
            /\ micStream' = 0
       ELSE UNCHANGED <<tracks, micStream>>
  /\ inputAudioContextRef' = 0
  /\ outputAudioContextRef' = 0
  /\ currentTime' = 0
  /\ scriptProcessorRef' = FALSE
  /\ isLiveSessionActiveInternal' = FALSE
  /\ isThinkingInternal' = FALSE
  /\ liveTranscription' = <<>>
  /\ error' = Null
  /\ UNCHANGED decoding

FreeAttempt ==
  CHOOSE a \in AttemptIds :
    attempts[a].pc = "idle" /\ \A b \in 1..(a - 1) : attempts[b].pc # "idle"

\* startLiveSession up to its await of getUserMedia
startLiveSession ==
  IF isLiveSessionActiveInternal
    THEN UNCHANGED chatVars
    ELSE /\ \E a \in AttemptIds : attempts[a].pc = "idle"
         /\ error' = Null
         /\ isThinkingInternal' = TRUE
         /\ inputAudioContextRef' = FreeAttempt
         /\ outputAudioContextRef' = FreeAttempt
         /\ currentTime' = 0
         /\ attempts' = [attempts EXCEPT ![FreeAttempt] =
                           [IdleAttempt EXCEPT !.pc = "getUserMedia", !.capturedMic = micStream]]
         /\ UNCHANGED <<isLiveSessionActiveInternal, isSpeaking, micStream, liveSessionRef,
                        scriptProcessorRef, nextOutputAudioStartTimeRef,
                        outputAudioSourcesRef, tracks, decoding, stoppedEnded, chunks,
                        lastArrival, lastScheduled, messages,
                        liveTranscription, sends, cleanup>>

\* BottomNavigationBar: the click on the 'voicechat' navigation item
selectVoiceChat ==
  /\ activeTab' = "voicechat"
  /\ RenderLocals("voicechat", recipeGenerationLoading, recipeGenerationError,
                  isLoadingInternal, editIngredientIndex, activeFilters)
  /\ scans' = Orphan(scans, FALSE)
  /\ isChatOverlayOpen' = IF activeTab = "voicechat" THEN FALSE ELSE isChatOverlayOpen
  /\ alertMessage' = Null
  /\ blankSubmit' = "none"
  /\ UNCHANGED <<fridgeInventory, shoppingList, healthLog, generatedRecipes, selectedRecipe,
                 imageAnalysisLoading, recipeGenerationLoading, imageAnalysisError,
                 recipeGenerationError, uploadedImageFile, nextItemId>>
  /\ startLiveSession

\* the controls of the chat can be reached in the tab, and in the overlay unless it is
\* moved off the screen (translate-y-full: an overlay with no session and not thinking)
ChatReachable ==
  \/ chatViewMode = "tab"
  \/ chatViewMode = "overlay" /\ (isLiveSessionActiveInternal \/ isThinkingInternal)

\* what a handler of the navigation bar or of the chat leaves alone in App, but for
\* activeTab, the overlay flag and the state of the tab components
shellFrame ==
  UNCHANGED <<fridgeInventory, shoppingList, healthLog, generatedRecipes, selectedRecipe,
              imageAnalysisLoading, recipeGenerationLoading, imageAnalysisError,
              recipeGenerationError, uploadedImageFile, alertMessage, blankSubmit,
              nextItemId>>

\* a click that changes the tab and leaves the session running
leaveVoiceChatKeepingSession(tab) ==
  /\ activeTab = "voicechat"
  /\ tab # "voicechat"
  /\ isChatOverlayOpen' = FALSE
  /\ activeTab' = tab
  /\ RenderLocals(tab, recipeGenerationLoading, recipeGenerationError,
                  isLoadingInternal, editIngredientIndex, activeFilters)
  /\ scans' = Orphan(scans, FALSE)
  /\ UNCHANGED chatVars
  /\ shellFrame

\* BottomNavigationBar: the click on a navigation item other than 'voicechat' while the
\* 'voicechat' tab is shown: the overlay flag is cleared, the tab is changed, and an
\* active session is stopped with the stopLiveSession of the latest render
leaveVoiceChat(tab) ==
  /\ activeTab = "voicechat"
  /\ tab # "voicechat"
  /\ isChatOverlayOpen' = IF isChatOverlayOpen THEN FALSE ELSE isChatOverlayOpen
  /\ activeTab' = tab
  /\ RenderLocals(tab, recipeGenerationLoading, recipeGenerationError,
                  isLoadingInternal, editIngredientIndex, activeFilters)
  /\ scans' = Orphan(scans, FALSE)
  /\ IF isLiveSessionActiveInternal
       THEN /\ stopLiveSession(micStream, attempts)
            /\ UNCHANGED <<messages, sends, cleanup>>
       ELSE UNCHANGED chatVars
  /\ shellFrame

\* BottomNavigationBar.handleChatFabClick (the button is disabled while thinking)
handleChatFabClick ==
  /\ ~isThinkingInternal
  /\ IF isLiveSessionActiveInternal
       THEN /\ stopLiveSession(micStream, attempts)
            /\ UNCHANGED <<messages, sends, cleanup>>
            /\ isChatOverlayOpen' = FALSE
       ELSE /\ isChatOverlayOpen' = IF activeTab # "voicechat" THEN TRUE ELSE isChatOverlayOpen
            /\ \E a \in AttemptIds : attempts[a].pc = "idle"
            /\ startLiveSession
  /\ shellFrame
  /\ UNCHANGED <<activeTab, scans, isLoadingInternal, editIngredientIndex, chosenAt,
                 activeFilters>>

\* the onClose that App hands to ChatInterface, reached from the close button of the
\* overlay
closeChatOverlay ==
  /\ chatViewMode = "overlay"
  /\ ChatReachable
  /\ isChatOverlayOpen' = FALSE
  /\ stopLiveSession(micStream, attempts)
  /\ UNCHANGED <<messages, sends, cleanup>>
  /\ shellFrame
  /\ UNCHANGED <<activeTab, scans, isLoadingInternal, editIngredientIndex, chosenAt,
                 activeFilters>>

\* The effect on [viewMode, isLiveSessionActiveInternal, stopLiveSession] after a render
\* in which one of them has changed: the cleanup function of the effect registered
\* before runs, with what it closed over, and the effect is registered anew.
viewModeCleanup ==
  /\ cleanup # Registered
  /\ cleanup' = Registered
  /\ IF cleanup.viewMode = "hidden" /\ cleanup.active
       THEN /\ stopLiveSession(cleanup.mic, attempts)
            /\ UNCHANGED <<messages, sends>>
       ELSE UNCHANGED <<isLiveSessionActiveInternal, isThinkingInternal, error, isSpeaking,
                        micStream, liveSessionRef, inputAudioContextRef,
                        outputAudioContextRef, scriptProcessorRef,
                        nextOutputAudioStartTimeRef, outputAudioSourcesRef, attempts,
                        tracks, currentTime, decoding, stoppedEnded, chunks, lastArrival,
                        lastScheduled, messages, liveTranscription, sends>>
  /\ UNCHANGED appVars

\* the microphone button of the chat (disabled while thinking)
micButtonClick ==
  /\ ChatReachable
  /\ ~isThinkingInternal
  /\ IF isLiveSessionActiveInternal
       THEN /\ stopLiveSession(micStream, attempts)
            /\ UNCHANGED <<messages, sends, cleanup>>
       ELSE /\ \E a \in AttemptIds : attempts[a].pc = "idle"
            /\ startLiveSession
  /\ UNCHANGED appVars

\* getUserMedia resolved: setMicStream(stream) and the call of connectLiveSession
getUserMediaResolved(a) ==
  /\ attempts[a].pc = "getUserMedia"
  /\ micStream' = a
  /\ tracks' = tracks \cup {a}
  /\ liveSessionRef' = a
  /\ attempts' = [attempts EXCEPT ![a].pc = "connecting"]
  /\ UNCHANGED <<appVars, cleanup, sends, isLiveSessionActiveInternal, isThinkingInternal, error, isSpeaking,
                 inputAudioContextRef, outputAudioContextRef, scriptProcessorRef,
                 nextOutputAudioStartTimeRef, outputAudioSourcesRef, currentTime, decoding,
                 stoppedEnded, chunks, lastArrival, lastScheduled,
                 messages, liveTranscription>>

\* getUserMedia rejected: the catch block of startLiveSession.  Its setError(message) is
\* followed, in the same handler, by the setError(null) of stopLiveSession.
getUserMediaRejected(a) ==
  /\ attempts[a].pc = "getUserMedia"
  /\ stopLiveSession(attempts[a].capturedMic, [attempts EXCEPT ![a].pc = "failed"])
  /\ UNCHANGED <<appVars, messages, sends, cleanup>>

\* the promise of connectLiveSession rejects; nothing awaits it
connectLiveSessionRejected(a) ==
  /\ attempts[a].pc = "connecting"
  /\ attempts' = [attempts EXCEPT ![a].pc = "rejected"]
  /\ UNCHANGED <<appVars, cleanup, sends, isLiveSessionActiveInternal, isThinkingInternal, error, isSpeaking,
                 micStream, liveSessionRef, inputAudioContextRef, outputAudioContextRef,
                 scriptProcessorRef, nextOutputAudioStartTimeRef, outputAudioSourcesRef,
                 tracks, currentTime, decoding, stoppedEnded, chunks, lastArrival,
                 lastScheduled,
                 messages, liveTranscription>>

onOpen(a) ==
  /\ attempts[a].pc = "connecting"
  /\ attempts' = [attempts EXCEPT ![a].pc = "open"]
  /\ isLiveSessionActiveInternal' = TRUE
  /\ isThinkingInternal' = FALSE
  /\ scriptProcessorRef' = IF inputAudioContextRef # 0 THEN TRUE ELSE scriptProcessorRef
  /\ UNCHANGED <<appVars, cleanup, sends, error, isSpeaking, micStream, liveSessionRef, inputAudioContextRef,
                 outputAudioContextRef, nextOutputAudioStartTimeRef, outputAudioSourcesRef,
                 tracks, currentTime, decoding, stoppedEnded, chunks, lastArrival,
                 lastScheduled,
                 messages, liveTranscription>>

LiveErrorText == <<"Sorry, an error occurred in the live chat">>

DisconnectedText == <<"Live chat session disconnected">>

\* onError of the session of attempt a: setError(message), the two flags, then
\* stopLiveSession(), whose setError(null) is the last one of the handler
onError(a) ==
  /\ attempts[a].pc \in {"connecting", "open"}
  /\ ~attempts[a].errored
  /\ stopLiveSession(attempts[a].capturedMic,
                     [attempts EXCEPT ![a].errored = TRUE,
                                      ![a].pc = IF @ = "connecting" THEN "rejected" ELSE @])
  /\ messages' = Append(messages, ChatMessage("gemini", LiveErrorText, FALSE))
  /\ UNCHANGED <<appVars, sends, cleanup>>

\* onClose of the session of attempt a; a close with a code other than 1000 adds a message
onClose(a) ==
  /\ attempts[a].pc = "open"
  /\ stopLiveSession(attempts[a].capturedMic, [attempts EXCEPT ![a].pc = "closed"])
  /\ \E code \in {1000, 1006} :
       messages' = IF code # 1000
                     THEN Append(messages, ChatMessage("gemini", DisconnectedText, FALSE))
                     ELSE messages
  /\ UNCHANGED <<appVars, sends, cleanup>>

(***************************************************************************)
(* ChatInterface: the text chat.  A text is a sequence of pieces; the      *)
(* empty text is <<>>.                                                     *)
(***************************************************************************)
\* what the text chat leaves alone
textFrame ==
  UNCHANGED <<appVars, isLiveSessionActiveInternal, isSpeaking, micStream, liveSessionRef,
              inputAudioContextRef, outputAudioContextRef, scriptProcessorRef,
              nextOutputAudioStartTimeRef, outputAudioSourcesRef, attempts, tracks,
              currentTime, decoding, stoppedEnded, chunks, lastArrival, lastScheduled,
              liveTranscription, cleanup>>

FreeSend ==
  CHOOSE r \in SendIds : sends[r].pc = "idle" /\ \A q \in 1..(r - 1) : sends[q].pc # "idle"

SendFailedError == "Failed to get response"

SorryText == <<"Sorry, I encountered an error">>

\* prev.map(msg => msg.isStreaming ? { ...msg, text, isStreaming } : msg)
writeStreaming(prev, text, isStreaming) ==
  [i \in 1..Len(prev) |->
     IF prev[i].isStreaming
       THEN [prev[i] EXCEPT !.text = text, !.isStreaming = isStreaming]
       ELSE prev[i]]

\* a stream chunk handler that replaces the response text by the chunk
streamChunkReplacing(r, chunkText) ==
  /\ sends[r].pc = "streaming"
  /\ Len(sends[r].delivered) < MaxStream
  /\ sends' = [sends EXCEPT ![r].delivered = Append(@, chunkText),
                            ![r].fullResponseText = IF chunkText # <<>> THEN chunkText ELSE @]
  /\ messages' = IF chunkText # <<>>
                   THEN writeStreaming(messages, chunkText, TRUE)
                   ELSE messages
  /\ UNCHANGED <<isThinkingInternal, error>>
  /\ textFrame

\* handleSendMessage(currentInput) from the Enter key or the send button, up to its
\* await of sendMessageStream; the input is disabled in a live session and while thinking
handleSendMessage(messageText) ==
  /\ ChatReachable
  /\ ~isLiveSessionActiveInternal
  /\ ~isThinkingInternal
  /\ IF IsBlank(messageText)
       THEN UNCHANGED <<messages, isThinkingInternal, error, sends>>
       ELSE /\ \E r \in SendIds : sends[r].pc = "idle"
            /\ messages' = messages \o <<ChatMessage("user", messageText, FALSE),
                                         ChatMessage("gemini", <<>>, TRUE)>>
            /\ isThinkingInternal' = TRUE
            /\ error' = Null
            /\ sends' = [sends EXCEPT ![FreeSend] =
                           [IdleSend EXCEPT !.pc = "sendMessageStream",
                                            !.messageText = messageText,
                                            !.before = Len(messages)]]
  /\ textFrame

\* the promise of sendMessageStream resolves with the response stream
sendMessageStreamResolved(r) ==
  /\ sends[r].pc = "sendMessageStream"
  /\ sends' = [sends EXCEPT ![r].pc = "streaming"]
  /\ UNCHANGED <<messages, isThinkingInternal, error>>
  /\ textFrame

\* the catch and finally blocks of handleSendMessage
sendCatchFinally(r) ==
  /\ sends' = [sends EXCEPT ![r].pc = "failed"]
  /\ error' = SendFailedError
  /\ messages' = Append(messages, ChatMessage("gemini", SorryText, FALSE))
  /\ isThinkingInternal' = FALSE
  /\ textFrame

\* the promise of sendMessageStream rejects
sendMessageStreamRejected(r) ==
  /\ sends[r].pc = "sendMessageStream"
  /\ sendCatchFinally(r)

\* the stream delivers a chunk: a chunk with text is added to fullResponseText, which is
\* written to every streaming message
streamChunk(r, chunkText) ==
  /\ sends[r].pc = "streaming"
  /\ Len(sends[r].delivered) < MaxStream
  /\ sends' = [sends EXCEPT ![r].delivered = Append(@, chunkText),
                            ![r].fullResponseText = IF chunkText # <<>> THEN @ \o chunkText ELSE @]
  /\ messages' = IF chunkText # <<>>
                   THEN writeStreaming(messages, sends[r].fullResponseText \o chunkText, TRUE)
                   ELSE messages
  /\ UNCHANGED <<isThinkingInternal, error>>
  /\ textFrame

\* the stream ends: fullResponseText is written to every streaming message, which
\* is streaming no more; then the finally block
streamCompleted(r) ==
  /\ sends[r].pc = "streaming"
  /\ sends' = [sends EXCEPT ![r].pc = "done"]
  /\ messages' = writeStreaming(messages, sends[r].fullResponseText, FALSE)
  /\ isThinkingInternal' = FALSE
  /\ UNCHANGED error
  /\ textFrame

\* the stream throws while it is read
streamFailed(r) ==
  /\ sends[r].pc = "streaming"
  /\ sendCatchFinally(r)

(***************************************************************************)
(* Scanning, navigation among the tabs other than 'voicechat', and the     *)
(* recipe list.  The chat stays hidden and idle.                           *)
(***************************************************************************)
rStew == Recipe("Stew", <<"A", " ", "V", "E", "G", "E", "T", "A", "R", "I", "A", "N", " ", "b", "o", "w", "l">>,
               <<"l", "o", "w", "-", "c", "a", "r", "b">>)
rRoast == Recipe("Roast", <<"b", "e", "e", "f">>, <<"L", "o", "w", " ", "C", "a", "r", "b", "!">>)

\* the lists generateRecipes resolves with in Spec
RecipeLists == {<<>>, <<rStew>>, <<rRoast, rStew>>}

\* the navigation items clicked in Spec
NavTabs == {"scan", "recipes"}

Init == InitApp /\ activeTab = "scan" /\ InitChat

Next ==
  \/ \E tab \in NavTabs : setActiveTab(tab)
  \/ \E file \in Files : handleFileChange(file)
  \/ handleRemoveImage
  \/ handleScanButtonClick
  \/ \E s \in ScanIds, ingredients \in ScanResults : analyzeImageResolved(s, ingredients)
  \/ \E s \in ScanIds : analyzeImageRejected(s)
  \/ \E s \in ScanIds, recipes \in RecipeLists : generateRecipesResolved(s, recipes)
  \/ \E s \in ScanIds : generateRecipesRejected(s)
  \/ checkExpiry
  \/ \E i \in 1..Len(generatedRecipes) : onRecipeSelected(i)
  \/ onRecipeDeselected

Spec == Init /\ [][Next]_vars

(***************************************************************************)
(* The scan on an inventory that was filled in by hand.  The state after   *)
(* these steps: on the inventory tab, ingredients are added with the form  *)
(* (none of them milk that is 'good', so that nothing is logged); on the   *)
(* scan tab a file is chosen and Scan is clicked.                          *)
(***************************************************************************)
ManualPool ==
  { Ingredient(sMilkCap, sTwo, "fresh"),
    Ingredient(sMilk, sOne, "expiring"),
    Ingredient(sEgg, sTwo, "spoiled") }

InitMerge ==
  /\ activeTab = "scan"
  /\ fridgeInventory \in SeqsUpTo(ManualPool, MaxManual)
  /\ shoppingList = <<>>
  /\ healthLog = <<>>
  /\ generatedRecipes = <<>>
  /\ selectedRecipe = <<>>
  /\ imageAnalysisLoading = TRUE
  /\ recipeGenerationLoading = TRUE
  /\ imageAnalysisError = Null
  /\ recipeGenerationError = Null
  /\ uploadedImageFile \in Files
  /\ scans = [s \in ScanIds |->
                IF s = 1 THEN [IdleScan EXCEPT !.pc = "analyzing", !.ownerMounted = TRUE]
                         ELSE IdleScan]
  /\ isLoadingInternal = TRUE
  /\ isChatOverlayOpen = FALSE
  /\ editIngredientIndex = 0
  /\ chosenAt = 0
  /\ alertMessage = Null
  /\ blankSubmit = "none"
  /\ nextItemId = 1
  /\ activeFilters = <<>>
  /\ InitChat

NextMerge ==
  \/ handleScanButtonClick
  \/ \E s \in ScanIds, ingredients \in ScanResults : analyzeImageResolved(s, ingredients)
  \/ \E s \in ScanIds : analyzeImageRejected(s)
  \/ \E s \in ScanIds, recipes \in RecipeLists : generateRecipesResolved(s, recipes)
  \/ \E s \in ScanIds : generateRecipesRejected(s)
  \/ checkExpiry

SpecMerge == InitMerge /\ [][NextMerge]_vars

(***************************************************************************)
(* Properties of the scan process.                                         *)
(***************************************************************************)
InFlight(s) == scans[s].pc \in {"analyzing", "generating"}

Failed(s) == scans[s].pc \in {"analysisFailed", "recipesFailed"}

\* C4: whenever image analysis or recipe generation of a scan fails, the step that ends
\* the process leaves imageAnalysisError a non-null message, generatedRecipes empty,
\* both loading flags false, and activeTab as it was.
C4_ScanFailure ==
  [][\A s \in ScanIds :
       (InFlight(s) /\ Failed(s)')
         => /\ imageAnalysisError' # Null
            /\ generatedRecipes' = <<>>
            /\ ~imageAnalysisLoading'
            /\ ~recipeGenerationLoading'
            /\ activeTab' = activeTab]_vars

\* a scan has failed on another tab than 'scan', after an earlier scan had produced recipes
C4_Witness ==
  \E s, t \in ScanIds :
    /\ Failed(s)
    /\ scans[t].pc = "done" /\ scans[t].recipes # <<>>
    /\ generatedRecipes = <<>>
    /\ imageAnalysisError = ScanFailedMessage
    /\ activeTab = "recipes"

\* C7: when a scan completes without error, the completing step leaves generatedRecipes
\* the list that generateRecipes returned to it, selectedRecipe null, activeTab 'recipes'
\* and both loading flags false.
C7_ScanSuccess ==
  [][\A s \in ScanIds :
       (InFlight(s) /\ scans'[s].pc = "done")
         => /\ generatedRecipes' = scans'[s].recipes
            /\ selectedRecipe' = <<>>
            /\ activeTab' = "recipes"
            /\ ~imageAnalysisLoading'
            /\ ~recipeGenerationLoading']_vars

\* two scans have completed; the recipes shown are those of one of them, and differ
\* from those the other returned
C7_Witness ==
  \E s, t \in ScanIds :
    /\ scans[s].pc = "done" /\ scans[t].pc = "done"
    /\ scans[s].recipes # scans[t].recipes
    /\ generatedRecipes = scans[s].recipes
    /\ generatedRecipes # <<>>
    /\ activeTab = "recipes"

HasName(inv, name) == \E i \in 1..Len(inv) : toLowerCase(inv[i].name) = toLowerCase(name)

C10_LoadingTracksScan ==
  (\E s \in ScanIds : InFlight(s)) => imageAnalysisLoading

\* a second scan was started from a remounted ImageUploader while the first is in flight
C10_Witness ==
  \E s, t \in ScanIds : s # t /\ InFlight(s) /\ InFlight(t)

SameName(a, b) == toLowerCase(a.name) = toLowerCase(b.name)

\* the scanned ingredients that open a new name: no entry of prev has the name, and no
\* earlier scanned ingredient has it
NewFirsts(prev, ingr) ==
  { k \in 1..Len(ingr) :
      /\ \A i \in 1..Len(prev) : ~SameName(prev[i], ingr[k])
      /\ \A j \in 1..(k - 1) : ~SameName(ingr[j], ingr[k]) }

\* the last scanned ingredient of the name of x
LastScanned(ingr, x) ==
  ingr[CHOOSE k \in 1..Len(ingr) :
         /\ SameName(ingr[k], x)
         /\ \A j \in (k + 1)..Len(ingr) : ~SameName(ingr[j], x)]

Scanned(ingr, x) == \E k \in 1..Len(ingr) : SameName(ingr[k], x)

MergeResult(prev, ingr, result) ==
  /\ Len(result) = Len(prev) + Cardinality(NewFirsts(prev, ingr))
  /\ \A i \in 1..Len(prev) :
       IF Scanned(ingr, prev[i]) /\ \A j \in 1..(i - 1) : ~SameName(prev[j], prev[i])
         THEN result[i] = [prev[i] EXCEPT !.quantity = LastScanned(ingr, prev[i]).quantity,
                                          !.freshness = LastScanned(ingr, prev[i]).freshness]
         ELSE result[i] = prev[i]
  /\ \A k \in NewFirsts(prev, ingr) :
       result[Len(prev) + Cardinality({j \in NewFirsts(prev, ingr) : j <= k})] =
         [ingr[k] EXCEPT !.quantity = LastScanned(ingr, ingr[k]).quantity,
                         !.freshness = LastScanned(ingr, ingr[k]).freshness]

sBlank == <<" ">>

FormNames == {sBlank, <<" ">> \o sMilk, sEgg}

FormQuantities == {<<>>, sOne \o <<" ">>}

FormFreshness == {"fresh", "good"}

ShoppingNames == {sBlank, sEgg \o <<" ">>}

InventoryTabs == {"inventory", "health"}

NextInventory ==
  \/ \E tab \in InventoryTabs : setActiveTab(tab)
  \/ \E name \in FormNames, quantity \in FormQuantities, freshness \in FormFreshness :
       handleAddOrUpdateIngredient(name, quantity, freshness)
  \/ \E index \in 1..MaxInventory : handleEditIngredient(index)
  \/ cancelEdit
  \/ \E index \in 1..MaxInventory : handleRemoveIngredient(index)
  \/ checkExpiry
  \/ \E name \in ShoppingNames : handleAddShoppingItem(name)
  \/ \E id \in 1..MaxShopping : handleRemoveShoppingItem(id)

SpecInventory == Init /\ [][NextInventory]_vars

\* C5: after a submit handler has run on empty or whitespace-only input, a validation
\* message is on display (the alert of the handler, or the error text of the scan tab).
C5_BlankSubmitShowsMessage ==
  blankSubmit # "none" => (alertMessage # Null \/ imageAnalysisError # Null)

(***************************************************************************)
(* The recipe list after a scan.  The state after these steps: a file is   *)
(* chosen, Scan is clicked, analyzeImage resolves with no ingredient and   *)
(* generateRecipes resolves with a list of recipes.                        *)
(***************************************************************************)
MaxRecipes == 2

InitFilter ==
  /\ activeTab = "recipes"
  /\ fridgeInventory = <<>>
  /\ shoppingList = <<>>
  /\ healthLog = <<AnalyzedEntry(0)>>
  /\ generatedRecipes \in SeqsUpTo(RecipePool, MaxRecipes) \ {<<>>}
  /\ selectedRecipe = <<>>
  /\ imageAnalysisLoading = FALSE
  /\ recipeGenerationLoading = FALSE
  /\ imageAnalysisError = Null
  /\ recipeGenerationError = Null
  /\ uploadedImageFile \in Files
  /\ scans = [s \in ScanIds |->
                IF s = 1 THEN [IdleScan EXCEPT !.pc = "done", !.recipes = generatedRecipes]
                         ELSE IdleScan]
  /\ isLoadingInternal = FALSE
  /\ isChatOverlayOpen = FALSE
  /\ editIngredientIndex = 0
  /\ chosenAt = 0
  /\ alertMessage = Null
  /\ blankSubmit = "none"
  /\ nextItemId = 1
  /\ activeFilters = <<>>
  /\ InitChat

NextFilter ==
  \/ \E i \in 1..Len(allFilters) : toggleFilter(allFilters[i])
  \/ \E index \in 1..MaxRecipes : onRecipeSelected(index)
  \/ onRecipeDeselected

SpecFilter == InitFilter /\ [][NextFilter]_vars

\* text contains pattern at some offset, ignoring the case of text
ContainsIgnoringCase(text, pattern) ==
  \E k \in 0..(Len(text) - Len(pattern)) :
    \A j \in 1..Len(pattern) : toLowerCaseChar(text[k + j]) = pattern[j]

Accepts(filter, recipe) ==
  CASE filter = "Vegetarian" -> ContainsIgnoringCase(recipe.summary, sVegetarian)
    [] filter = "Low Carb" -> ContainsIgnoringCase(recipe.healthInsight, sLowCarb)
    [] OTHER -> TRUE

Listed(recipe) ==
  \/ activeFilters = <<>>
  \/ \E i \in 1..Len(activeFilters) : Accepts(activeFilters[i], recipe)

\* the positions of generatedRecipes whose recipe is listed
ListedAt == {i \in 1..Len(generatedRecipes) : Listed(generatedRecipes[i])}

\* C8: the listed recipes are the recipes that are listed by the rule (every recipe with
\* no active filter; with active filters those that some active filter accepts:
\* 'Vegetarian' by 'vegetarian' in the summary, 'Low Carb' by 'low carb' in the health
\* insight, both ignoring case, any other filter always), in the order of the input.
C8_FilterPredicate ==
  /\ Len(filteredRecipes) = Cardinality(ListedAt)
  /\ \A i \in ListedAt :
       filteredRecipes[Cardinality({j \in ListedAt : j <= i})] = generatedRecipes[i]

\* 'Vegetarian' and 'Low Carb' are active, and of two recipes only the second, whose
\* health insight is 'Low Carb!', is listed
C8_Witness ==
  /\ Len(activeFilters) = 2
  /\ \A i \in 1..2 : activeFilters[i] \in {"Vegetarian", "Low Carb"}
  /\ Len(generatedRecipes) = 2
  /\ generatedRecipes[2].name = "Roast"
  /\ ListedAt = {2}
  /\ filteredRecipes = <<generatedRecipes[2]>>

(***************************************************************************)
(* The voice chat: the session is started from the navigation bar or the   *)
(* microphone button; the application's other handlers are left out.       *)
(***************************************************************************)
\* the server messages of this specification carry no audio
LiveMessages == {Message(0, TRUE, FALSE), Message(0, FALSE, TRUE)}

NextLive ==
  \/ selectVoiceChat
  \/ micButtonClick
  \/ \E a \in AttemptIds : getUserMediaResolved(a)
  \/ \E a \in AttemptIds : getUserMediaRejected(a)
  \/ \E a \in AttemptIds : connectLiveSessionRejected(a)
  \/ \E a \in AttemptIds : onOpen(a)
  \/ \E a \in AttemptIds, msg \in LiveMessages : handleLiveSessionMessage(a, msg)
  \/ \E a \in AttemptIds : onError(a)
  \/ \E a \in AttemptIds : onClose(a)

SpecLive == Init /\ [][NextLive]_vars

(***************************************************************************)
(* Audio playback in an open session.  The state after these steps: the    *)
(* 'voicechat' item is clicked, getUserMedia resolves and the session      *)
(* opens.                                                                  *)
(***************************************************************************)
InitAudio ==
  /\ InitApp
  /\ activeTab = "voicechat"
  /\ isLiveSessionActiveInternal = TRUE
  /\ isThinkingInternal = FALSE
  /\ error = Null
  /\ isSpeaking = FALSE
  /\ micStream = 1
  /\ liveSessionRef = 1
  /\ inputAudioContextRef = 1
  /\ outputAudioContextRef = 1
  /\ scriptProcessorRef = TRUE
  /\ nextOutputAudioStartTimeRef = 0
  /\ outputAudioSourcesRef = {}
  /\ attempts = [a \in AttemptIds |-> IF a = 1 THEN [IdleAttempt EXCEPT !.pc = "open"]
                                                 ELSE IdleAttempt]
  /\ tracks = {1}
  /\ currentTime = 0
  /\ decoding = <<>>
  /\ stoppedEnded = 0
  /\ chunks = [c \in ChunkIds |-> NoChunk]
  /\ lastArrival = 0
  /\ lastScheduled = 0
  /\ messages = <<Greeting>>
  /\ liveTranscription = <<>>
  /\ sends = [r \in SendIds |-> IdleSend]
  /\ cleanup = Registered

NextAudio ==
  \/ \E msg \in Messages : handleLiveSessionMessage(1, msg)
  \/ decodeAudioDataResolved
  \/ decodeAudioDataRejected
  \/ \E c \in ChunkIds : sourceEnded(c)
  \/ stoppedSourceEnded
  \/ tick
  \/ onClose(1)

SpecAudio == InitAudio /\ [][NextAudio]_vars

(***************************************************************************)
(* Properties of the audio playback.                                       *)
(***************************************************************************)
Scheduled(c) == chunks[c].state = "scheduled"

ScheduledEnd(c) == chunks[c].start + chunks[c].duration

\* the scheduled end of the chunk scheduled before c, 0 when c is the first since
\* playback was last stopped
PreviousEnd(c) == IF chunks[c].after = 0 THEN 0 ELSE ScheduledEnd(chunks[c].after)

\* C1 as stated: each chunk is started at the maximum of the scheduled end of the chunk
\* scheduled before it and the audio clock read when the chunk itself arrived.
C1_AsStated ==
  \A c \in ChunkIds :
    (Scheduled(c) /\ ~chunks[c].stale)
      => chunks[c].start = Max(PreviousEnd(c), chunks[c].at)

\* C1: among the chunks handled with no interruption and no stop between them, each
\* chunk whose decoding succeeds is started at the maximum of the scheduled end of the
\* chunk scheduled before it and the audio clock read by the latest chunk arrival
\* handled before its own decoding completed; the next start time is then its scheduled
\* end, until a later arrival reads a later clock; the chunks are scheduled in the order
\* of their arrival and their playback intervals never overlap.
C1_GaplessScheduling ==
  /\ \A c \in ChunkIds :
       (Scheduled(c) /\ ~chunks[c].stale)
         => /\ chunks[c].start = Max(PreviousEnd(c), chunks[c].seen)
            /\ chunks[c].seen >= chunks[c].at
            /\ chunks[c].after < c
  /\ \A c, d \in ChunkIds :
       (Scheduled(c) /\ Scheduled(d) /\ c < d) => ScheduledEnd(c) <= chunks[d].start
  /\ nextOutputAudioStartTimeRef =
       IF lastScheduled = 0 THEN lastArrival
       ELSE Max(ScheduledEnd(lastScheduled), lastArrival)

\* three chunks scheduled back to back; the second arrived while the first was being
\* decoded and at a later clock, which is where the first one starts
C1_Witness ==
  /\ \A c \in 1..3 : Scheduled(c) /\ ~chunks[c].stale
  /\ chunks[2].at > chunks[1].at
  /\ chunks[1].start = chunks[2].at
  /\ chunks[2].start = ScheduledEnd(1)
  /\ chunks[3].at < ScheduledEnd(2)
  /\ chunks[3].start = ScheduledEnd(2)

\* C2: no chunk that was received before an interruption was handled is among the
\* output sources after it.
C2_Interruption ==
  \A c \in ChunkIds : chunks[c].stale => c \notin outputAudioSourcesRef

(***************************************************************************)
(* Properties of the live session.                                         *)
(***************************************************************************)
\* C3: when the catch block of startLiveSession or the onError callback of a session
\* has run, the error state is a non-null message and the session is neither active
\* nor thinking.
C3_FailureSurfaced ==
  [][\A a \in AttemptIds :
       (\/ attempts[a].pc = "getUserMedia" /\ attempts'[a].pc = "failed"
        \/ ~attempts[a].errored /\ attempts'[a].errored)
         => /\ error' # Null
            /\ ~isLiveSessionActiveInternal'
            /\ ~isThinkingInternal']_vars

(***************************************************************************)
(* The chat and the navigation: the session is started and stopped from    *)
(* the navigation bar, the floating button, the close button of the        *)
(* overlay and the microphone button.  Passive effects are flushed before  *)
(* the next event is handled.                                              *)
(***************************************************************************)
\* the navigation items other than 'voicechat' that are clicked
ChatTabs == {"scan", "recipes"}

EffectsFlushed == cleanup = Registered

SessionEvents ==
  \/ \E a \in AttemptIds : getUserMediaResolved(a)
  \/ \E a \in AttemptIds : getUserMediaRejected(a)
  \/ \E a \in AttemptIds : connectLiveSessionRejected(a)
  \/ \E a \in AttemptIds : onOpen(a)
  \/ \E a \in AttemptIds : onError(a)
  \/ \E a \in AttemptIds : onClose(a)

NextChat ==
  \/ viewModeCleanup
  \/ /\ EffectsFlushed
     /\ \/ selectVoiceChat
        \/ \E tab \in ChatTabs : leaveVoiceChat(tab)
        \/ \E tab \in ChatTabs : setActiveTab(tab)
        \/ handleChatFabClick
        \/ closeChatOverlay
        \/ micButtonClick
        \/ SessionEvents

SpecChat == Init /\ [][NextChat]_vars

\* the same, with a scan that completes while the chat is in use
NextChatScan ==
  \/ NextChat
  \/ /\ EffectsFlushed
     /\ \/ \E file \in Files : handleFileChange(file)
        \/ handleScanButtonClick
        \/ \E s \in ScanIds : analyzeImageResolved(s, <<>>)
        \/ \E s \in ScanIds : generateRecipesResolved(s, <<>>)

SpecChatScan == Init /\ [][NextChatScan]_vars

(***************************************************************************)
(* The user's controls of a session that opens: the start and the stop     *)
(* from the navigation bar, the floating button, the close button of the   *)
(* overlay and the microphone button, with the transcriptions that the     *)
(* session delivers.                                                       *)
(***************************************************************************)
\* the server messages: what the user said, and the end of the model's turn
HeardMessages ==
  {[Message(0, FALSE, FALSE) EXCEPT !.inputTranscription = <<"user">>],
   Message(0, FALSE, TRUE)}

NextControls ==
  \/ viewModeCleanup
  \/ /\ EffectsFlushed
     /\ \/ selectVoiceChat
        \/ \E tab \in ChatTabs : leaveVoiceChat(tab)
        \/ \E tab \in ChatTabs : setActiveTab(tab)
        \/ handleChatFabClick
        \/ closeChatOverlay
        \/ micButtonClick
        \/ \E a \in AttemptIds : getUserMediaResolved(a)
        \/ \E a \in AttemptIds : onOpen(a)
        \/ \E a \in AttemptIds : onClose(a)
        \/ \E a \in AttemptIds, msg \in HeardMessages : handleLiveSessionMessage(a, msg)

SpecControls == Init /\ [][NextControls]_vars

(***************************************************************************)
(* Properties of the user's controls.                                      *)
(***************************************************************************)
\* a step in which stopLiveSession has run on the session that liveSessionRef held:
\* its close is requested, and the reference, the audio contexts, the script processor
\* and the output sources are gone, with the session neither active nor thinking
StopInvoked ==
  /\ liveSessionRef # 0 => attempts'[liveSessionRef].closeRequested
  /\ liveSessionRef' = 0
  /\ inputAudioContextRef' = 0
  /\ outputAudioContextRef' = 0
  /\ ~scriptProcessorRef'
  /\ outputAudioSourcesRef' = {}
  /\ ~isLiveSessionActiveInternal'
  /\ ~isThinkingInternal'

\* C11: when a navigation item for a tab other than 'voicechat' is clicked while
\* activeTab is 'voicechat' and the live session is active, stopLiveSession is invoked,
\* activeTab becomes the clicked tab, and the chat overlay flag is false afterwards.
C11_LeavingStopsSession ==
  [][/\ (activeTab = "voicechat" /\ isLiveSessionActiveInternal /\ activeTab' # "voicechat")
         => StopInvoked /\ ~isChatOverlayOpen'
     /\ \A tab \in Tabs \ {"voicechat"} :
          (isLiveSessionActiveInternal /\ leaveVoiceChat(tab)) => activeTab' = tab]_vars

\* the 'recipes' item was clicked on the 'voicechat' tab with a session open (the effect
\* of the render on the tab is still the registered one): the session is closing
C11_Witness ==
  /\ activeTab = "recipes"
  /\ cleanup.viewMode = "tab" /\ cleanup.active
  /\ ~isChatOverlayOpen
  /\ ~isLiveSessionActiveInternal
  /\ liveSessionRef = 0
  /\ \E a \in AttemptIds :
       attempts[a].pc = "open" /\ attempts[a].closeRequested /\ a \notin tracks

(***************************************************************************)
(* Properties of the chat and the navigation.                              *)
(***************************************************************************)
\* C12: in every state in which the chat view mode is 'hidden' (activeTab is not
\* 'voicechat' and the overlay flag is false) and the effects of the last render have
\* run, the live session is not active.
C12_HiddenChatHasNoSession ==
  (chatViewMode = "hidden" /\ EffectsFlushed) => ~isLiveSessionActiveInternal

\* C13: when the session of a start that had acquired the microphone ends through its
\* onError or its onClose callback, every track of the microphone stream obtained by
\* that start is stopped by the end of the callback.
C13_CallbackStopsTracks ==
  [][\A a \in AttemptIds :
       ((onError(a) \/ onClose(a)) /\ a \in tracks) => a \notin tracks']_vars

(***************************************************************************)
(* Stopping a session that is heard and speaks: the user's controls of an  *)
(* open session, with the transcription of the user's speech and the audio *)
(* of the model.                                                           *)
(***************************************************************************)
\* the server messages: what the user said, and a chunk of the model's audio
SpokenMessages ==
  {[Message(0, FALSE, FALSE) EXCEPT !.inputTranscription = <<"user">>],
   Message(2, FALSE, FALSE)}

NextStop ==
  \/ viewModeCleanup
  \/ /\ EffectsFlushed
     /\ \/ selectVoiceChat
        \/ leaveVoiceChat("recipes")
        \/ handleChatFabClick
        \/ closeChatOverlay
        \/ micButtonClick
        \/ \E a \in AttemptIds : getUserMediaResolved(a)
        \/ \E a \in AttemptIds : onOpen(a)
        \/ \E a \in AttemptIds, msg \in SpokenMessages : handleLiveSessionMessage(a, msg)
        \/ decodeAudioDataResolved

SpecStop == InitAudio /\ [][NextStop]_vars

\* a click on one of the controls that stop an active session: the microphone button,
\* the floating button, the close button of the overlay, a navigation item that leaves
\* the 'voicechat' tab
UserStop ==
  \/ micButtonClick
  \/ handleChatFabClick
  \/ closeChatOverlay
  \/ \E tab \in Tabs \ {"voicechat"} : leaveVoiceChat(tab)

\* C14: after stopLiveSession is invoked from a user control on an active session, the
\* session reference is null and the close of its session was requested, both audio
\* contexts and the script processor are null, the tracks of the microphone stream are
\* stopped and micStream is null, no output source is scheduled, and
\* isLiveSessionActive, isThinking, liveTranscription and error are false, false, empty
\* and null.
C14_UserStopReleases ==
  [][(isLiveSessionActiveInternal /\ UserStop)
       => /\ StopInvoked
          /\ (micStream # 0 => micStream \notin tracks')
          /\ micStream' = 0
          /\ liveTranscription' = <<>>
          /\ error' = Null]_vars

\* the session started from the floating button was stopped while a chunk of audio was
\* scheduled: its close is requested, its track is stopped, its source is stopped
C14_Witness ==
  /\ attempts[2].pc = "open" /\ attempts[2].closeRequested
  /\ 2 \notin tracks
  /\ \E c \in ChunkIds : chunks[c].state = "stopped"
  /\ outputAudioSourcesRef = {}
  /\ liveSessionRef = 0 /\ micStream = 0
  /\ ~isLiveSessionActiveInternal
  /\ liveTranscription = <<>>

(***************************************************************************)
(* Properties of concurrent starts and late callbacks.                     *)
(***************************************************************************)
\* the start of attempt a has not yet led to an open session
Connecting(a) == attempts[a].pc \in {"getUserMedia", "connecting"}

\* C15: a startLiveSession call made while an earlier start is still connecting
\* (isThinking true, the session not yet open) does not begin a second start: no
\* further attempt acquires a microphone stream and audio contexts of its own.
C15_SingleAttempt ==
  [][(isThinkingInternal /\ ~isLiveSessionActiveInternal
        /\ \E a \in AttemptIds : Connecting(a))
       => \A b \in AttemptIds : attempts[b].pc = "idle" => attempts'[b].pc = "idle"]_vars

\* C16: when the user has stopped a session and started a new one, the late onClose or
\* onError callback of the old session leaves the new session's reference, audio
\* contexts, script processor and active flag untouched.
C16_StaleCloseIsHarmless ==
  [][\A a \in AttemptIds :
       ((onClose(a) \/ onError(a)) /\ attempts[a].closeRequested
          /\ liveSessionRef \notin {0, a})
         => UNCHANGED <<liveSessionRef, inputAudioContextRef, outputAudioContextRef,
                        scriptProcessorRef, isLiveSessionActiveInternal>>]_vars

(***************************************************************************)
(* The chat with its pending promises and callbacks delivered: the promise *)
(* of getUserMedia settles, a connection that is being made opens, fails   *)
(* or is rejected, a session whose close was requested is closed, and the  *)
(* effects of a render run.  Nothing obliges the user to click, or the     *)
(* server to end a session that is open.                                   *)
(***************************************************************************)
\* the pending step of attempt a is delivered
Settles(a) ==
  \/ getUserMediaResolved(a)
  \/ getUserMediaRejected(a)
  \/ connectLiveSessionRejected(a)
  \/ onOpen(a)
  \/ attempts[a].pc = "connecting" /\ onError(a)
  \/ attempts[a].closeRequested /\ onClose(a)

SpecChatFair ==
  /\ Init
  /\ [][NextChat]_vars
  /\ WF_vars(viewModeCleanup)
  /\ \A a \in AttemptIds : WF_vars(EffectsFlushed /\ Settles(a))

\* C17: after every startLiveSession call that passes its guard, isThinking eventually
\* becomes false, whichever way the attempt settles.
C17_ConnectingEnds == isThinkingInternal ~> ~isThinkingInternal

(***************************************************************************)
(* The text chat.  The state after these steps: the 'voicechat' item is    *)
(* clicked and getUserMedia rejects, which leaves the chat shown in its    *)
(* tab with no session.  No live session is started afterwards.            *)
(***************************************************************************)
InitText ==
  /\ InitApp
  /\ activeTab = "voicechat"
  /\ isLiveSessionActiveInternal = FALSE
  /\ isThinkingInternal = FALSE
  /\ error = Null
  /\ isSpeaking = FALSE
  /\ micStream = 0
  /\ liveSessionRef = 0
  /\ inputAudioContextRef = 0
  /\ outputAudioContextRef = 0
  /\ scriptProcessorRef = FALSE
  /\ nextOutputAudioStartTimeRef = 0
  /\ outputAudioSourcesRef = {}
  /\ attempts = [a \in AttemptIds |-> IF a = 1 THEN [IdleAttempt EXCEPT !.pc = "failed"]
                                                 ELSE IdleAttempt]
  /\ tracks = {}
  /\ currentTime = 0
  /\ decoding = <<>>
  /\ stoppedEnded = 0
  /\ chunks = [c \in ChunkIds |-> NoChunk]
  /\ lastArrival = 0
  /\ lastScheduled = 0
  /\ messages = <<Greeting>>
  /\ liveTranscription = <<>>
  /\ sends = [r \in SendIds |-> IdleSend]
  /\ cleanup = Registered

\* what is typed: a blank text and a text
TextInputs == {<<" ">>, <<"h", "i">>}

\* the texts of the stream chunks: none, and two pieces
ChunkTexts == {<<>>, <<"a">>, <<"b">>}

NextText ==
  \/ \E messageText \in TextInputs : handleSendMessage(messageText)
  \/ \E r \in SendIds : sendMessageStreamResolved(r)
  \/ \E r \in SendIds : sendMessageStreamRejected(r)
  \/ \E r \in SendIds, chunkText \in ChunkTexts : streamChunk(r, chunkText)
  \/ \E r \in SendIds : streamCompleted(r)
  \/ \E r \in SendIds : streamFailed(r)

SpecText == InitText /\ [][NextText]_vars

(***************************************************************************)
(* Properties of the text chat.                                            *)
(***************************************************************************)
RECURSIVE Concatenation(_)
\* the chunks that have a text, one after the other
Concatenation(chunkTexts) ==
  IF chunkTexts = <<>> THEN <<>>
  ELSE Head(chunkTexts) \o Concatenation(Tail(chunkTexts))

C19_NoStreamingWhenIdle ==
  (~isThinkingInternal /\ ~isLiveSessionActiveInternal)
    => \A i \in 1..Len(messages) : ~messages[i].isStreaming

(***************************************************************************)
(* Properties of the ingredient form.                                      *)
(***************************************************************************)
\* C20: when 'Update Ingredient' is confirmed with valid fields while the ingredient
\* chosen with Edit is still in the inventory, exactly that ingredient is replaced by
\* the form values and the inventory length is unchanged, whatever was done between
\* Edit and Update.
C20_EditReplacesChosen ==
  [][\A name \in FormNames, quantity \in FormQuantities, freshness \in FormFreshness :
       (/\ editIngredientIndex # 0
        /\ chosenAt # 0
        /\ ~IsBlank(name) /\ ~IsBlank(quantity)
        /\ handleAddOrUpdateIngredient(name, quantity, freshness))
         => /\ Len(fridgeInventory') = Len(fridgeInventory)
            /\ \A i \in 1..Len(fridgeInventory) :
                 fridgeInventory'[i] =
                   IF i = chosenAt THEN Ingredient(trim(name), trim(quantity), freshness)
                   ELSE fridgeInventory[i]]_vars

(***************************************************************************)
(* The shopping list, with every one of its handlers.                      *)
(***************************************************************************)
\* what is typed into the name of an item that is edited
RenameTexts == {sMilk, <<>>}

NextShopping ==
  \/ \E tab \in InventoryTabs : setActiveTab(tab)
  \/ \E name \in ShoppingNames : handleAddShoppingItem(name)
  \/ \E id \in 1..MaxShopping, newName \in RenameTexts : handleUpdateShoppingItem(id, newName)
  \/ \E id \in 1..MaxShopping : handleToggleShoppingItem(id)
  \/ \E id \in 1..MaxShopping : handleRemoveShoppingItem(id)
  \/ clearCompletedShoppingItems

SpecShopping == Init /\ [][NextShopping]_vars

(***************************************************************************)
(* Properties of the shopping list.                                        *)
(***************************************************************************)
\* the positions of the items of a list that have the id
WithId(list, id) == {i \in 1..Len(list) : list[i].id = id}

\* rest is list without the items at the positions in gone, in the order of list
Without(list, gone, rest) ==
  /\ Len(rest) = Len(list) - Cardinality(gone)
  /\ \A i \in (1..Len(list)) \ gone :
       rest[i - Cardinality({j \in gone : j < i})] = list[i]

C22_NoDuplicateNames ==
  \A i, j \in 1..Len(fridgeInventory) :
    i # j => toLowerCase(fridgeInventory[i].name) # toLowerCase(fridgeInventory[j].name)

\* two scans were merged, the second listing 'Milk' and 'milk': the inventory has the
\* egg and one milk entry, under its first spelling and with the values listed last
C22_Witness ==
  /\ Len(healthLog) >= 2
  /\ healthLog[1].kind = "analyzed" /\ healthLog[2].kind = "analyzed"
  /\ fridgeInventory = <<Ingredient(sEgg, sOne, "fresh"), Ingredient(sMilkCap, sOne, "good")>>

====
